---- MODULE Spec2Model ----
(***************************************************************************)
(* Knowledge-graph ingestion of the Motherson intelligence pipeline:       *)
(* Database (src/src/graph/database.py) and GraphBuilder.build_graph with  *)
(* its helpers (src/src/graph/graph_builder.py).                            *)
(* Further down: the Store used directly, EntityResolver                    *)
(* (src/src/graph/entity_resolver.py), and GraphBuilder's query methods.    *)
(*                                                                         *)
(* Python values are modelled as strings; None, a missing dictionary key,  *)
(* and a value sqlite3 cannot bind are three distinguished markers.  Row   *)
(* ids are integers, NoneId standing for None where an id is expected.     *)
(* Confidences are kept in hundredths (0.9 is 90).                         *)
(***************************************************************************)
EXTENDS Integers, Sequences, FiniteSets, TLC

VARIABLES db, pc, batch, idx, company_id, stats, ingested, prev, dbcall, rcall, qcall

vars == <<db, pc, batch, idx, company_id, stats, ingested, prev, dbcall, rcall, qcall>>

(***************************************************************************)
(* Bounds of the model.                                                    *)
(***************************************************************************)
\* total number of items handed to build_graph over all calls
MaxIngested == 3
\* number of direct Database calls in the Store specification
MaxDirect == 4
\* number of generic suffixes appended to a base name passed to normalize_name
MaxSuffixes == 2
\* number of candidates in the list passed to resolve_facilities
MaxCandidates == 3
\* number of event rows a client inserts before querying
MaxEvents == 2
\* number of job rows a client inserts before querying
MaxJobs == 3

(***************************************************************************)
(* Python / SQL values.                                                    *)
(***************************************************************************)
None == "<None>"
Absent == "<absent>"
Unbindable == "<list>"
NoneId == -1

\* dict.get(key, default): the default is used only when the key is missing
Get(d, k, default) == IF d[k] = Absent THEN default ELSE d[k]

\* truth value of a Python string-or-None value
Truthy(v) == v \notin {None, Absent, "", "False"}

\* truth value of a Python int-or-None value (if source_id: / if facility_id:)
TruthyId(i) == i # NoneId /\ i # 0

\* str.lower() / SQL LOWER() on the names and cities of the model
LowerOf(s) ==
  CASE s = "Alpha Plant" -> "alpha plant"
    [] s = "ALPHA PLANT" -> "alpha plant"
    [] s = "Pune" -> "pune"
    [] s = "PUNE" -> "pune"
    [] s = "New harness plant" -> "new harness plant"
    [] s = "Motherson Pune wiring plant" -> "motherson pune wiring plant"
    [] OTHER -> s

\* SQL LOWER(x): NULL stays NULL
SqlLower(v) == IF v = None THEN None ELSE LowerOf(v)

\* SQL a = b: a comparison with NULL is never true
SqlEq(a, b) == a # None /\ b # None /\ a = b

\* str.upper() on the division names of the model
UpperOf(s) ==
  CASE s = "smr" -> "SMR"
    [] s = "Vision Systems" -> "VISION SYSTEMS"
    [] s = "Wiring Systems" -> "WIRING SYSTEMS"
    [] s = "Unknown" -> "UNKNOWN"
    [] OTHER -> s

division_map ==
  [k \in {"MSWIL", "MSW", "WIRING", "SMR", "VISION", "SMP", "POLYMER",
          "SEATING", "LOGISTICS", "PKC"} |->
     CASE k \in {"MSWIL", "MSW", "WIRING", "PKC"} -> "Wiring Systems"
       [] k \in {"SMR", "VISION"} -> "Vision Systems"
       [] k \in {"SMP", "POLYMER"} -> "Polymers"
       [] k = "SEATING" -> "Seating Systems"
       [] OTHER -> "Logistics"]

\* the keys of division_map in insertion order
division_map_keys ==
  <<"MSWIL", "MSW", "WIRING", "SMR", "VISION", "SMP", "POLYMER", "SEATING",
    "LOGISTICS", "PKC">>

\* the keys of city_to_state in insertion order
city_to_state_keys ==
  <<"Sanand", "Ahmedabad", "Navagam", "Pune", "Chakan", "Mumbai", "Chennai",
    "Hosur", "Bangalore", "Bengaluru", "Manesar", "Gurgaon", "Gurugram",
    "Noida", "Haridwar", "Bawal", "Dharuhera">>

city_to_state ==
  [c \in {city_to_state_keys[i] : i \in 1..Len(city_to_state_keys)} |->
     CASE c \in {"Sanand", "Ahmedabad", "Navagam"} -> "Gujarat"
       [] c \in {"Pune", "Chakan", "Mumbai"} -> "Maharashtra"
       [] c \in {"Chennai", "Hosur"} -> "Tamil Nadu"
       [] c \in {"Bangalore", "Bengaluru"} -> "Karnataka"
       [] c \in {"Manesar", "Gurgaon", "Gurugram", "Bawal", "Dharuhera"} -> "Haryana"
       [] c = "Noida" -> "Uttar Pradesh"
       [] OTHER -> "Uttarakhand"]

\* re.sub(r'\s+', ' ', s.strip()) on an already lower-cased name
CollapseSpaces(s) ==
  CASE s = " alpha  plant " -> "alpha plant"
    [] OTHER -> s

\* GraphBuilder._normalize_name
NormalizeName(name) ==
  IF ~Truthy(name) THEN "" ELSE CollapseSpaces(LowerOf(name))

\* text[:500]; the one name of the model longer than 500 characters is cut
Slice500(text) ==
  CASE text = "<name of 600 characters>" -> "<its first 500 characters>"
    [] OTHER -> text

\* the upper-cased keywords occurring as substrings of text.upper()
KeywordsIn(text) ==
  CASE text = "New harness plant" -> {"HARNESS"}
    [] text = "Motherson Pune wiring plant" -> {"WIRING"}
    [] OTHER -> {}

\* the cities of city_to_state whose lower-cased name occurs in text.lower()
CitiesIn(text) ==
  CASE text = "Motherson Pune wiring plant" -> {"Pune"}
    [] OTHER -> {}

\* first element of the sequence s that lies in the set S, or dflt
RECURSIVE FirstIn(_, _, _, _)
FirstIn(s, S, i, dflt) ==
  IF i > Len(s) THEN dflt
  ELSE IF s[i] \in S THEN s[i] ELSE FirstIn(s, S, i + 1, dflt)

\* GraphBuilder._extract_city_from_text
ExtractCityFromText(text) == FirstIn(city_to_state_keys, CitiesIn(text), 1, None)

\* GraphBuilder._infer_division
InferDivision(text) ==
  LET abbr == FirstIn(division_map_keys, KeywordsIn(text), 1, None)
      kw == KeywordsIn(text)
  IN IF abbr # None THEN division_map[abbr]
     ELSE IF "WIRING" \in kw \/ "HARNESS" \in kw THEN "Wiring Systems"
     ELSE IF "VISION" \in kw \/ "MIRROR" \in kw THEN "Vision Systems"
     ELSE IF "POLYMER" \in kw THEN "Polymers"
     ELSE IF "SEATING" \in kw THEN "Seating Systems"
     ELSE IF "LOGISTIC" \in kw THEN "Logistics"
     ELSE "Unknown"

(***************************************************************************)
(* Database: the seven tables and execute_query / execute_insert.          *)
(***************************************************************************)
Tables == {"companies", "divisions", "sources", "facilities", "events", "evidence", "jobs"}

\* the store right after Database.__init__ on a new file
EmptyDb ==
  [companies |-> <<>>, divisions |-> <<>>, sources |-> <<>>, facilities |-> <<>>,
   events |-> <<>>, evidence |-> <<>>, jobs |-> <<>>,
   seq |-> [t \in Tables |-> 0]]

\* columns bound from Python str values, per table
TextCols ==
  [t \in Tables |->
     CASE t = "companies" -> {"name"}
       [] t = "divisions" -> {"name"}
       [] t = "sources" -> {"url", "title", "fetched_at", "mime_type", "publish_date", "source_type"}
       [] t = "facilities" -> {"name", "city", "state", "country", "normalized_name"}
       [] t = "events" -> {"event_type", "event_date", "status", "expansion_type"}
       [] t = "evidence" -> {"entity_type", "text_snippet"}
       [] OTHER -> {"title", "location", "posted_date", "description"}]

\* whether a row with this id exists in the table
RowExists(d, t, id) == \E i \in 1..Len(d[t]) : d[t][i].id = id

\* sqlite3.connect(self.db_path): the connection never issues PRAGMA foreign_keys = ON
ForeignKeysEnabled == FALSE

\* a parameter of a type sqlite3 cannot bind
BindFails(t, row) == \E c \in TextCols[t] : row[c] = Unbindable

\* NOT NULL columns of the schema
NotNullFails(t, row) ==
  \/ t = "companies" /\ row.name = None
  \/ t = "divisions" /\ (row.company_id = NoneId \/ row.name = None)

\* UNIQUE columns of the schema (NULLs never collide)
UniqueFails(d, t, row) ==
  \/ t = "companies" /\ \E i \in 1..Len(d.companies) : d.companies[i].name = row.name
  \/ t = "sources" /\ row.url # None
       /\ \E i \in 1..Len(d.sources) : d.sources[i].url = row.url

\* FOREIGN KEY clauses of the schema; a NULL child column references nothing
ForeignKeyFails(d, t, row) ==
  \/ t = "divisions" /\ ~RowExists(d, "companies", row.company_id)
  \/ t = "facilities" /\ row.division_id # NoneId /\ ~RowExists(d, "divisions", row.division_id)
  \/ t = "events" /\ row.facility_id # NoneId /\ ~RowExists(d, "facilities", row.facility_id)
  \/ t = "evidence" /\ row.source_id # NoneId /\ ~RowExists(d, "sources", row.source_id)
  \/ t = "jobs" /\ row.source_id # NoneId /\ ~RowExists(d, "sources", row.source_id)

\* Database.execute_insert: a new connection, one INSERT [OR IGNORE], commit.
\* Result: the store, cursor.lastrowid, and the exception raised ("" for none).
\* An ignored INSERT OR IGNORE still consumes an AUTOINCREMENT id and leaves
\* lastrowid at 0, the value of a connection that has inserted nothing.
ExecuteInsert(d, t, row, orIgnore) ==
  LET newid == d.seq[t] + 1 IN
  IF BindFails(t, row) THEN [db |-> d, id |-> NoneId, err |-> "InterfaceError"]
  ELSE IF NotNullFails(t, row) THEN [db |-> d, id |-> NoneId, err |-> "IntegrityError"]
  ELSE IF UniqueFails(d, t, row) THEN
    IF orIgnore
      THEN [db |-> [d EXCEPT !.seq[t] = newid], id |-> 0, err |-> ""]
      ELSE [db |-> d, id |-> NoneId, err |-> "IntegrityError"]
  ELSE IF ForeignKeysEnabled /\ ForeignKeyFails(d, t, row)
    THEN [db |-> d, id |-> NoneId, err |-> "IntegrityError"]
  ELSE [db |-> [d EXCEPT ![t] = Append(@, [row EXCEPT !.id = newid]), !.seq[t] = newid],
        id |-> newid, err |-> ""]

(***************************************************************************)
(* GraphBuilder helpers of build_graph.                                    *)
(***************************************************************************)
\* GraphBuilder._ensure_company
EnsureCompany(d) ==
  LET result == SelectSeq(d.companies, LAMBDA r : SqlEq(r.name, "Motherson")) IN
  IF Len(result) > 0 THEN [db |-> d, id |-> result[1].id, err |-> ""]
  ELSE ExecuteInsert(d, "companies", [id |-> 0, name |-> "Motherson"], FALSE)

\* _ensure_division with the INSERT issued through a call that never commits:
\* the id is handed back but the Division row is lost
EnsureDivisionLostInsert(d, cid, division_name) ==
  IF division_name = None THEN [db |-> d, id |-> NoneId, err |-> "AttributeError"]
  ELSE
    LET up == UpperOf(division_name)
        normalized == IF up \in DOMAIN division_map THEN division_map[up] ELSE division_name
        result == SelectSeq(d.divisions,
                            LAMBDA r : r.company_id = cid /\ SqlEq(r.name, normalized))
    IN IF Len(result) > 0 THEN [db |-> d, id |-> result[1].id, err |-> ""]
       ELSE [db |-> d, id |-> d.seq.divisions + 1, err |-> ""]

\* _ensure_division without the division_map lookup: the name as given
EnsureDivisionAsGiven(d, cid, division_name) ==
  IF division_name = None THEN [db |-> d, id |-> NoneId, err |-> "AttributeError"]
  ELSE
    LET result == SelectSeq(d.divisions,
                            LAMBDA r : r.company_id = cid /\ SqlEq(r.name, division_name))
    IN IF Len(result) > 0 THEN [db |-> d, id |-> result[1].id, err |-> ""]
       ELSE ExecuteInsert(d, "divisions",
                          [id |-> 0, company_id |-> cid, name |-> division_name], FALSE)

\* GraphBuilder._ensure_division; division_name.upper() needs a str
EnsureDivision(d, cid, division_name) ==
  IF division_name = None THEN [db |-> d, id |-> NoneId, err |-> "AttributeError"]
  ELSE
    LET up == UpperOf(division_name)
        normalized == IF up \in DOMAIN division_map THEN division_map[up] ELSE division_name
        result == SelectSeq(d.divisions,
                            LAMBDA r : r.company_id = cid /\ SqlEq(r.name, normalized))
    IN IF Len(result) > 0 THEN [db |-> d, id |-> result[1].id, err |-> ""]
       ELSE ExecuteInsert(d, "divisions",
                          [id |-> 0, company_id |-> cid, name |-> normalized], FALSE)

\* _insert_source written with INSERT OR REPLACE: a stored url is overwritten
InsertSourceReplace(d, sd) ==
  LET url == Get(sd, "url", "unknown")
      kept == SelectSeq(d.sources, LAMBDA r : ~SqlEq(r.url, url))
      r == ExecuteInsert([d EXCEPT !.sources = kept], "sources",
             [id |-> 0,
              url |-> url,
              title |-> Get(sd, "title", "Untitled"),
              fetched_at |-> Get(sd, "fetched_at", None),
              mime_type |-> Get(sd, "mime", "text/html"),
              publish_date |-> Get(sd, "publish_dt", None),
              source_type |-> Get(sd, "source_type", "web")], FALSE)
  IN IF r.err # "" THEN [db |-> d, id |-> NoneId, err |-> ""] ELSE r

\* GraphBuilder._insert_source: INSERT OR IGNORE, any exception gives None
InsertSource(d, sd) ==
  LET r == ExecuteInsert(d, "sources",
             [id |-> 0,
              url |-> Get(sd, "url", "unknown"),
              title |-> Get(sd, "title", "Untitled"),
              fetched_at |-> Get(sd, "fetched_at", None),
              mime_type |-> Get(sd, "mime", "text/html"),
              publish_date |-> Get(sd, "publish_dt", None),
              source_type |-> Get(sd, "source_type", "web")], TRUE)
  IN IF r.err # "" THEN [db |-> d, id |-> NoneId, err |-> ""] ELSE r

\* the SELECT of _insert_facility: LOWER(name) = LOWER(?) AND LOWER(city) = LOWER(?)
FacilityLookup(d, fac) ==
  SelectSeq(d.facilities,
            LAMBDA r : /\ SqlEq(SqlLower(r.name), SqlLower(Get(fac, "name", "")))
                       /\ SqlEq(SqlLower(r.city), SqlLower(Get(fac, "city", ""))))

\* GraphBuilder._insert_facility: lookup, else INSERT; any exception gives None
InsertFacility(d, fac, division_id) ==
  IF Get(fac, "name", "") = Unbindable \/ Get(fac, "city", "") = Unbindable
    THEN [db |-> d, id |-> NoneId, err |-> ""]
  ELSE
    LET result == FacilityLookup(d, fac) IN
    IF Len(result) > 0 THEN [db |-> d, id |-> result[1].id, err |-> ""]
    ELSE
      LET r == ExecuteInsert(d, "facilities",
                 [id |-> 0,
                  division_id |-> division_id,
                  name |-> Get(fac, "name", ""),
                  city |-> Get(fac, "city", None),
                  state |-> Get(fac, "state", None),
                  country |-> Get(fac, "country", "India"),
                  normalized_name |-> NormalizeName(Get(fac, "name", ""))], FALSE)
      IN IF r.err # "" THEN [db |-> d, id |-> NoneId, err |-> ""] ELSE r

\* confidence column default of _insert_event, 0.8
EventDefaultConfidence == 80

\* GraphBuilder._insert_event; any exception is logged and swallowed
InsertEvent(d, ev) ==
  LET r == ExecuteInsert(d, "events",
             [id |-> 0,
              facility_id |-> ev.facility_id,
              event_type |-> Get(ev, "event_type", "operational"),
              event_date |-> Get(ev, "event_date", None),
              status |-> Get(ev, "status", "operational"),
              expansion_type |-> Get(ev, "expansion_type", None),
              confidence |-> EventDefaultConfidence], FALSE)
  IN IF r.err # "" THEN [db |-> d, id |-> NoneId, err |-> ""] ELSE r

\* GraphBuilder._insert_job: is_factory_role is 1 only for a truthy value
InsertJob(d, job, source_id) ==
  LET r == ExecuteInsert(d, "jobs",
             [id |-> 0,
              title |-> Get(job, "title", ""),
              location |-> Get(job, "location", "India"),
              is_factory_role |-> IF Truthy(Get(job, "is_factory_role", None)) THEN 1 ELSE 0,
              source_id |-> source_id,
              posted_date |-> Get(job, "posted_date", None),
              description |-> Get(job, "description", None)], FALSE)
  IN IF r.err # "" THEN [db |-> d, id |-> NoneId, err |-> ""] ELSE r

\* GraphBuilder._insert_evidence: text[:500] of None raises inside the try
InsertEvidence(d, source_id, entity_type, entity_id, text, confidence) ==
  IF text = None THEN [db |-> d, id |-> NoneId, err |-> ""]
  ELSE
    LET r == ExecuteInsert(d, "evidence",
               [id |-> 0,
                source_id |-> source_id,
                entity_type |-> entity_type,
                entity_id |-> entity_id,
                text_snippet |-> Slice500(text),
                confidence |-> confidence], FALSE)
    IN IF r.err # "" THEN [db |-> d, id |-> NoneId, err |-> ""] ELSE r

(***************************************************************************)
(* build_graph: the body of the item loop.  A context is the store, the    *)
(* stats dictionary and the exception that escaped ("" for none).  Each    *)
(* call's result is bound once (x \in {call}) before it is used, as the    *)
(* Python code binds it to a local.                                        *)
(***************************************************************************)
\* the element of a singleton set
Only(S) == CHOOSE x \in S : TRUE

\* confidence of the evidence of a structured facility candidate, 0.9
StructuredEvidenceConfidence == 90
\* confidence of the evidence of a free-text facility mention, 0.8
EntityEvidenceConfidence == 80

\* build_graph after _insert_facility: `if facility_id:` counts the facility,
\* appends the Event and links the Evidence
LinkFacility(ctx, fi, event_data, source_id, text, confidence) ==
  IF ~TruthyId(fi.id) THEN [ctx EXCEPT !.db = fi.db]
  ELSE Only({[db |-> evd.db,
              stats |-> [ctx.stats EXCEPT !.facilities = @ + 1, !.events = @ + 1],
              err |-> ""] :
               evd \in {InsertEvidence(ev.db, source_id, "FACILITY", fi.id, text, confidence) :
                          ev \in {InsertEvent(fi.db, [event_data EXCEPT !.facility_id = fi.id])}}})

\* build_graph after _ensure_division: _insert_facility and what follows
UpsertFacility(ctx, ed, fac, event_data, source_id, text, confidence) ==
  IF ed.err # "" THEN [ctx EXCEPT !.db = ed.db, !.err = ed.err]
  ELSE Only({LinkFacility(ctx, fi, event_data, source_id, text, confidence) :
               fi \in {InsertFacility(ed.db, fac, ed.id)}})

\* build_graph, one structured facility candidate
StructuredFacility(ctx, fac, cid, source_id) ==
  Only({UpsertFacility(ctx, ed, fac,
                       [facility_id |-> NoneId,
                        event_type |-> "operational",
                        status |-> Get(fac, "status", "operational"),
                        event_date |-> Get(fac, "date", None),
                        expansion_type |-> Get(fac, "expansion_type", None)],
                       source_id, Get(fac, "name", ""), StructuredEvidenceConfidence) :
          ed \in {EnsureDivision(ctx.db, cid, Get(fac, "division", "Unknown"))}})

\* build_graph: for fac_data in source_data['structured_facilities']
RECURSIVE StructuredFacilities(_, _, _, _, _)
StructuredFacilities(ctx, facs, i, cid, source_id) ==
  IF ctx.err # "" \/ i > Len(facs) THEN ctx
  ELSE Only({StructuredFacilities(c, facs, i + 1, cid, source_id) :
               c \in {StructuredFacility(ctx, facs[i], cid, source_id)}})

\* build_graph: `if job_id:` counts the job
CountJob(ctx, r) ==
  [ctx EXCEPT !.db = r.db,
              !.stats = IF TruthyId(r.id) THEN [@ EXCEPT !.jobs = @ + 1] ELSE @]

\* build_graph, one structured job candidate
StructuredJob(ctx, job, source_id) ==
  Only({CountJob(ctx, r) : r \in {InsertJob(ctx.db, job, source_id)}})

\* build_graph: for job_data in source_data['structured_jobs']
RECURSIVE StructuredJobs(_, _, _, _)
StructuredJobs(ctx, js, i, source_id) ==
  IF ctx.err # "" \/ i > Len(js) THEN ctx
  ELSE Only({StructuredJobs(c, js, i + 1, source_id) :
               c \in {StructuredJob(ctx, js[i], source_id)}})

\* build_graph, one free-text facility mention; text.lower() needs a str
EntityFacility(ctx, fe, cid, source_id) ==
  LET text == Get(fe, "text", "") IN
  IF text = None THEN [ctx EXCEPT !.err = "AttributeError"]
  ELSE
    LET city == ExtractCityFromText(text)
        state == IF Truthy(city) THEN city_to_state[city] ELSE None
        division_name == InferDivision(text)
        fac_data == [name |-> text, city |-> city, state |-> state,
                     division |-> division_name, status |-> "operational",
                     country |-> Absent]
    IN Only({UpsertFacility(ctx, ed, fac_data,
                            [facility_id |-> NoneId,
                             event_type |-> "operational",
                             status |-> "operational",
                             event_date |-> Absent,
                             expansion_type |-> Absent],
                            source_id, text, EntityEvidenceConfidence) :
               ed \in {EnsureDivision(ctx.db, cid, division_name)}})

\* build_graph: for facility_entity in entities.get('facilities', [])
RECURSIVE EntityFacilities(_, _, _, _, _)
EntityFacilities(ctx, fes, i, cid, source_id) ==
  IF ctx.err # "" \/ i > Len(fes) THEN ctx
  ELSE Only({EntityFacilities(c, fes, i + 1, cid, source_id) :
               c \in {EntityFacility(ctx, fes[i], cid, source_id)}})

\* build_graph, one free-text job title
EntityJob(ctx, je, source_id) ==
  Only({CountJob(ctx, r) :
          r \in {InsertJob(ctx.db,
                           [title |-> Get(je, "text", ""),
                            location |-> Get(je, "location", "India"),
                            is_factory_role |-> Get(je, "is_factory_role", "True"),
                            posted_date |-> Absent,
                            description |-> Absent],
                           source_id)}})

\* build_graph: for job_entity in entities.get('job_titles', [])
RECURSIVE EntityJobs(_, _, _, _)
EntityJobs(ctx, jes, i, source_id) ==
  IF ctx.err # "" \/ i > Len(jes) THEN ctx
  ELSE Only({EntityJobs(c, jes, i + 1, source_id) :
               c \in {EntityJob(ctx, jes[i], source_id)}})

\* the item loop wrapped in one transaction per item that is rolled back when
\* the item fails
OnItemErrorRollback(before, ctx) == before

\* build_graph: an exception leaving the item loop; nothing is undone, every
\* execute_insert has committed its own row
OnItemError(before, ctx) == ctx.db

\* build_graph: `if 'structured_facilities' in source_data:` and its loop
StructuredFacilitiesOf(ctx, sd, cid, source_id) ==
  CASE sd.structured_facilities.kind = "absent" -> ctx
    [] sd.structured_facilities.kind = "list" ->
         StructuredFacilities(ctx, sd.structured_facilities.elems, 1, cid, source_id)
    [] OTHER -> [ctx EXCEPT !.err = "TypeError"]

\* build_graph: `if 'structured_jobs' in source_data:` and its loop
StructuredJobsOf(ctx, sd, source_id) ==
  IF ctx.err # "" THEN ctx
  ELSE CASE sd.structured_jobs.kind = "absent" -> ctx
         [] sd.structured_jobs.kind = "list" ->
              StructuredJobs(ctx, sd.structured_jobs.elems, 1, source_id)
         [] OTHER -> [ctx EXCEPT !.err = "TypeError"]

\* build_graph after _insert_source: `if source_id:` counts the source, then
\* the structured facilities, the structured jobs and the entities in order
AfterSource(st, item, cid, src) ==
  Only({EntityJobs(c3, item.entities.job_titles, 1, src.id) :
          c3 \in {EntityFacilities(c2, item.entities.facilities, 1, cid, src.id) :
            c2 \in {StructuredJobsOf(c1, item.source_data, src.id) :
              c1 \in {StructuredFacilitiesOf(c0, item.source_data, cid, src.id) :
                c0 \in {[db |-> src.db,
                         stats |-> IF TruthyId(src.id)
                                     THEN [st EXCEPT !.sources = @ + 1] ELSE st,
                         err |-> ""]}}}}})

\* build_graph: the body of `for item in extracted_data`
ProcessItem(d, st, item, cid) ==
  Only({AfterSource(st, item, cid, src) : src \in {InsertSource(d, item.source_data)}})

(***************************************************************************)
(* The extracted items the model feeds to build_graph.                     *)
(***************************************************************************)
NoList == [kind |-> "absent"]
NotIterable == [kind |-> "None"]
ListOf(elems) == [kind |-> "list", elems |-> elems]
NoEntities == [facilities |-> <<>>, job_titles |-> <<>>]

\* a structured facility candidate with every optional key missing
Fac(name, division, city) ==
  [name |-> name, division |-> division, city |-> city, state |-> Absent,
   country |-> Absent, status |-> Absent, date |-> Absent, expansion_type |-> Absent]

FacPune == [Fac("Alpha Plant", "smr", "Pune") EXCEPT !.state = "Maharashtra"]
FacPuneUpper ==
  [Fac("ALPHA PLANT", "Vision Systems", "PUNE") EXCEPT
     !.status = "planned", !.date = "2024-01-01", !.expansion_type = "greenfield"]
FacNullCity == Fac("Alpha Plant", "SMR", None)
FacNoCityKey == Fac("Alpha Plant", "Other Division", Absent)
FacNullDivision == Fac("Alpha Plant", None, "Pune")
FacNullName == Fac(None, Absent, "Pune")

\* a structured job candidate
Job(title, role) ==
  [title |-> title, location |-> Absent, is_factory_role |-> role,
   posted_date |-> Absent, description |-> Absent]

\* source_data with the given url, title and structured lists
SourceData(url, title, facs, js) ==
  [url |-> url, title |-> title, fetched_at |-> Absent, mime |-> Absent,
   publish_dt |-> Absent, source_type |-> Absent,
   structured_facilities |-> facs, structured_jobs |-> js]

ItemDirectory ==
  [source_data |-> SourceData("u1", "Address Directory", ListOf(<<FacPune, FacPuneUpper>>), NoList),
   entities |-> NoEntities]
ItemNoCity ==
  [source_data |->
     [SourceData("u1", "Annual Report", ListOf(<<FacNullCity, FacNoCityKey>>), NoList) EXCEPT
        !.fetched_at = "2024-02-02", !.mime = "application/pdf",
        !.publish_dt = "2024-01-31", !.source_type = "pdf"],
   entities |-> NoEntities]
ItemNullDivision ==
  [source_data |-> SourceData("u2", Absent, ListOf(<<FacPune, FacNullDivision>>), NoList),
   entities |-> NoEntities]
ItemNotIterable ==
  [source_data |-> SourceData(None, "Broken", NotIterable, NoList),
   entities |-> NoEntities]
ItemNullName ==
  [source_data |-> SourceData(Unbindable, Absent, ListOf(<<FacNullName>>), NoList),
   entities |-> NoEntities]
ItemJobs ==
  [source_data |->
     SourceData("u3", "Careers", NoList,
                ListOf(<<Job("Operator", Absent), Job("Welder", "True")>>)),
   entities |-> NoEntities]
ItemEntities ==
  [source_data |-> SourceData(Absent, Absent, NoList, NoList),
   entities |->
     [facilities |-> <<[text |-> "New harness plant"],
                       [text |-> "Motherson Pune wiring plant"]>>,
      job_titles |-> <<[text |-> "Technician", location |-> Absent,
                        is_factory_role |-> Absent]>>]]

Items == {ItemDirectory, ItemNoCity, ItemNullDivision, ItemNotIterable,
          ItemNullName, ItemJobs, ItemEntities}

\* the sequences over S of length at most n
SeqsUpTo(S, n) == UNION {[1..k -> S] : k \in 0..n}

(***************************************************************************)
(* State machine.                                                          *)
(*   db          the store                                                 *)
(*   pc          "idle", "loop" (inside build_graph), "returned", "raised" *)
(*   batch, idx  the argument of the running call and the next item        *)
(*   company_id  build_graph's local                                       *)
(*   stats       build_graph's stats dictionary (its return value)         *)
(*   ingested    items handed to build_graph so far                        *)
(*   prev        the previous call: its batch, how it ended, the Facility  *)
(*               and Division counts it left                               *)
(*   dbcall      the last direct Database call, its result and the         *)
(*               connections it opened that are still open                 *)
(*   rcall       the last EntityResolver call: method, arguments, result   *)
(*   qcall       the last GraphBuilder query call: method, arguments, the  *)
(*               list returned, and the rows of query_expansions' SELECTs  *)
(***************************************************************************)
ZeroStats == [divisions |-> 0, facilities |-> 0, events |-> 0, jobs |-> 0, sources |-> 0]
NoCall ==
  [op |-> "", table |-> "", parentExists |-> TRUE, id |-> 0, err |-> "", added |-> 0,
   open |-> 0, n |-> 0]
NoResolverCall == [fn |-> "", args |-> <<>>, result |-> <<>>, groups |-> <<>>]
NoQueryCall == [fn |-> "", args |-> <<>>, result |-> <<>>, rows |-> <<>>]

Init ==
  /\ db = EmptyDb
  /\ pc = "idle"
  /\ batch = <<>>
  /\ idx = 1
  /\ company_id = NoneId
  /\ stats = ZeroStats
  /\ ingested = 0
  /\ prev = [batch |-> <<>>, outcome |-> "none", facilities |-> 0, divisions |-> 0]
  /\ dbcall = NoCall
  /\ rcall = NoResolverCall
  /\ qcall = NoQueryCall

\* build_graph(extracted_data) up to the loop: _ensure_company and the stats
StartBuild(b) ==
  /\ pc # "loop"
  /\ Len(b) <= MaxIngested - ingested
  /\ \E ec \in {EnsureCompany(db)} :
       /\ db' = ec.db
       /\ company_id' = ec.id
       /\ pc' = IF ec.err # "" THEN "raised" ELSE "loop"
  /\ batch' = b
  /\ idx' = 1
  /\ stats' = ZeroStats
  /\ ingested' = ingested + Len(b)
  /\ prev' = IF pc \in {"returned", "raised"}
               THEN [batch |-> batch, outcome |-> pc,
                     facilities |-> Len(db.facilities), divisions |-> Len(db.divisions)]
               ELSE prev
  /\ UNCHANGED <<dbcall, rcall, qcall>>

\* one iteration of `for item in extracted_data`; an exception ends the call
BuildItem ==
  /\ pc = "loop"
  /\ idx <= Len(batch)
  /\ \E r \in {ProcessItem(db, stats, batch[idx], company_id)} :
       IF r.err # ""
         THEN /\ db' = OnItemError(db, r)
              /\ pc' = "raised"
              /\ UNCHANGED <<idx, stats>>
         ELSE /\ db' = r.db
              /\ stats' = r.stats
              /\ idx' = idx + 1
              /\ pc' = "loop"
  /\ UNCHANGED <<batch, company_id, ingested, prev, dbcall, rcall, qcall>>

\* the loop is exhausted: return stats
ReturnStats ==
  /\ pc = "loop"
  /\ idx > Len(batch)
  /\ pc' = "returned"
  /\ UNCHANGED <<db, batch, idx, company_id, stats, ingested, prev, dbcall, rcall, qcall>>

Next ==
  \/ \E b \in SeqsUpTo(Items, MaxIngested) : StartBuild(b)
  \/ BuildItem
  \/ ReturnStats

Spec == Init /\ [][Next]_vars

(***************************************************************************)
(* The Store used directly: Database.execute_insert called by a client     *)
(* with rows whose parent reference is arbitrary, on a store that one      *)
(* ingestion of the address directory has filled (or on the empty store).  *)
(***************************************************************************)
\* the store after build_graph([ItemDirectory]) on a new database
DirectoryDb == ProcessItem(EnsureCompany(EmptyDb).db, ZeroStats, ItemDirectory, 1).db

InitStore ==
  /\ db \in {EmptyDb, DirectoryDb}
  /\ pc = "idle"
  /\ batch = <<>>
  /\ idx = 1
  /\ company_id = NoneId
  /\ stats = ZeroStats
  /\ ingested = 0
  /\ prev = [batch |-> <<>>, outcome |-> "none", facilities |-> 0, divisions |-> 0]
  /\ dbcall = NoCall
  /\ rcall = NoResolverCall
  /\ qcall = NoQueryCall

\* the parent ids a direct insert may name: existing and non-existing ones
ParentIds == {1, 2}

\* Every Database method opens its own connection with get_connection() and
\* closes it with conn.close() as its last statement before returning, outside
\* any try/finally: the connections of one call that are open when the call
\* has returned (err = "") or raised.
ConnectionsLeftOpen(err) == IF err = "" THEN 0 ELSE 1

\* Database.execute_query("SELECT id FROM <t> WHERE name = ?", (name,))
ExecuteQuery(d, t, name) ==
  IF name = Unbindable THEN [rows |-> <<>>, err |-> "InterfaceError"]
  ELSE [rows |-> SelectSeq(d[t], LAMBDA r : SqlEq(r.name, name)), err |-> ""]

\* Database.clear_all_data: DELETE FROM every table; the AUTOINCREMENT
\* counters of sqlite_sequence are not reset by DELETE
ClearAllData(d) == [EmptyDb EXCEPT !.seq = d.seq]

\* Database.get_statistics: the row count of every table
GetStatistics(d) == [t \in Tables |-> Len(d[t])]

\* one direct call of execute_insert(INSERT INTO t ...) and what it returned
DirectInsert(t, row, parentExists) ==
  /\ dbcall.n < MaxDirect
  /\ \E r \in {ExecuteInsert(db, t, row, FALSE)} :
       /\ db' = r.db
       /\ dbcall' = [op |-> "execute_insert", table |-> t, parentExists |-> parentExists,
                     id |-> r.id, err |-> r.err, added |-> Len(r.db[t]) - Len(db[t]),
                     open |-> ConnectionsLeftOpen(r.err), n |-> dbcall.n + 1]
  /\ UNCHANGED <<pc, batch, idx, company_id, stats, ingested, prev, rcall, qcall>>

\* the division names a client passes: a str, or a value sqlite3 cannot bind
DirectNames == {"Polymers", Unbindable}

DirectInsertDivision ==
  \E c \in ParentIds, name \in DirectNames :
    DirectInsert("divisions", [id |-> 0, company_id |-> c, name |-> name],
                 RowExists(db, "companies", c))

DirectInsertFacility ==
  \E dv \in ParentIds :
    DirectInsert("facilities",
                 [id |-> 0, division_id |-> dv, name |-> "Beta Unit", city |-> "Chennai",
                  state |-> "Tamil Nadu", country |-> "India", normalized_name |-> "beta unit"],
                 RowExists(db, "divisions", dv))

DirectInsertEvent ==
  \E f \in ParentIds :
    DirectInsert("events",
                 [id |-> 0, facility_id |-> f, event_type |-> "operational",
                  event_date |-> None, status |-> "planned", expansion_type |-> None,
                  confidence |-> EventDefaultConfidence],
                 RowExists(db, "facilities", f))

\* one direct call of execute_query looking a division up by name
DirectQuery ==
  /\ dbcall.n < MaxDirect
  /\ \E name \in DirectNames :
       \E r \in {ExecuteQuery(db, "divisions", name)} :
         dbcall' = [op |-> "execute_query", table |-> "divisions", parentExists |-> TRUE,
                    id |-> IF Len(r.rows) > 0 THEN r.rows[1].id ELSE 0, err |-> r.err,
                    added |-> 0, open |-> ConnectionsLeftOpen(r.err), n |-> dbcall.n + 1]
  /\ UNCHANGED <<db, pc, batch, idx, company_id, stats, ingested, prev, rcall, qcall>>

\* one direct call of get_statistics; id carries total_divisions
DirectGetStatistics ==
  /\ dbcall.n < MaxDirect
  /\ dbcall' = [op |-> "get_statistics", table |-> "", parentExists |-> TRUE,
                id |-> GetStatistics(db).divisions, err |-> "", added |-> 0,
                open |-> ConnectionsLeftOpen(""), n |-> dbcall.n + 1]
  /\ UNCHANGED <<db, pc, batch, idx, company_id, stats, ingested, prev, rcall, qcall>>

\* one direct call of clear_all_data
DirectClearAllData ==
  /\ dbcall.n < MaxDirect
  /\ db' = ClearAllData(db)
  /\ dbcall' = [op |-> "clear_all_data", table |-> "", parentExists |-> TRUE, id |-> 0,
                err |-> "", added |-> 0, open |-> ConnectionsLeftOpen(""),
                n |-> dbcall.n + 1]
  /\ UNCHANGED <<pc, batch, idx, company_id, stats, ingested, prev, rcall, qcall>>

NextStore ==
  \/ DirectInsertDivision
  \/ DirectInsertFacility
  \/ DirectInsertEvent
  \/ DirectQuery
  \/ DirectGetStatistics
  \/ DirectClearAllData

SpecStore == InitStore /\ [][NextStore]_vars

(***************************************************************************)
(* EntityResolver (src/src/graph/entity_resolver.py).                      *)
(*                                                                         *)
(* The names and locations the resolver works on are modelled as sequences *)
(* of one-character strings, so that lower(), strip(), split(), the two    *)
(* regular-expression substitutions, endswith() and the substring test are *)
(* computed character by character.  NoneStr is None where a str is        *)
(* expected.  A candidate dict is a record whose DOMAIN is its key set.    *)
(* A float ratio is kept as the pair of integers it is the quotient of.    *)
(***************************************************************************)
NoneStr == <<"<None>">>

UpperChars ==
  <<"A", "B", "C", "D", "E", "F", "G", "H", "I", "J", "K", "L", "M",
    "N", "O", "P", "Q", "R", "S", "T", "U", "V", "W", "X", "Y", "Z">>
LowerChars ==
  <<"a", "b", "c", "d", "e", "f", "g", "h", "i", "j", "k", "l", "m",
    "n", "o", "p", "q", "r", "s", "t", "u", "v", "w", "x", "y", "z">>

\* str.lower() on one character
LowerChar(c) ==
  IF \E i \in 1..26 : UpperChars[i] = c
    THEN LowerChars[CHOOSE i \in 1..26 : UpperChars[i] = c]
    ELSE c

\* the regular-expression classes \s and \w
IsSpace(c) == c \in {" ", "\t"}
IsWord(c) ==
  \/ \E i \in 1..26 : c \in {UpperChars[i], LowerChars[i]}
  \/ c \in {"0", "1", "2", "3", "4", "5", "6", "7", "8", "9", "_"}

\* str.lower()
StrLower(s) == [i \in 1..Len(s) |-> LowerChar(s[i])]

RECURSIVE LStrip(_)
LStrip(s) == IF s # <<>> /\ IsSpace(Head(s)) THEN LStrip(Tail(s)) ELSE s

RECURSIVE RStrip(_)
RStrip(s) ==
  IF s # <<>> /\ IsSpace(s[Len(s)]) THEN RStrip(SubSeq(s, 1, Len(s) - 1)) ELSE s

\* str.strip()
Strip(s) == RStrip(LStrip(s))

\* re.sub(r'\s+', ' ', s): every run of whitespace becomes one space
RECURSIVE SubSpaces(_)
SubSpaces(s) ==
  IF s = <<>> THEN <<>>
  ELSE IF IsSpace(Head(s)) THEN <<" ">> \o SubSpaces(LStrip(s))
  ELSE <<Head(s)>> \o SubSpaces(Tail(s))

\* re.sub(r'[^\w\s]', '', s): every other character is deleted
SubPunct(s) == SelectSeq(s, LAMBDA c : IsWord(c) \/ IsSpace(c))

\* str.endswith(suffix)
EndsWith(s, suffix) ==
  /\ Len(s) >= Len(suffix)
  /\ SubSeq(s, Len(s) - Len(suffix) + 1, Len(s)) = suffix

\* `sub in s` for str
Contains(s, sub) ==
  \E i \in 1..(Len(s) - Len(sub) + 1) : SubSeq(s, i, i + Len(sub) - 1) = sub

\* str.split(): the whitespace-separated tokens, in order
RECURSIVE Split(_)
SplitFrom(t) ==
  LET ends == {i \in 1..Len(t) : IsSpace(t[i])}
      n == IF ends = {} THEN Len(t) + 1 ELSE CHOOSE i \in ends : \A j \in ends : i <= j
  IN <<SubSeq(t, 1, n - 1)>> \o Split(SubSeq(t, n, Len(t)))
Split(s) ==
  IF LStrip(s) = <<>> THEN <<>> ELSE Only({SplitFrom(t) : t \in {LStrip(s)}})

\* set(s.split())
TokenSet(s) == {Split(s)[i] : i \in 1..Len(Split(s))}

\* the truth value of a str-or-None value
TruthyStr(s) == s \notin {NoneStr, <<>>}

\* self.common_suffixes
common_suffixes ==
  <<<<"p", "l", "a", "n", "t">>, <<"f", "a", "c", "i", "l", "i", "t", "y">>, <<"u", "n", "i", "t">>, <<"m", "a", "n", "u", "f", "a", "c", "t", "u", "r", "i", "n", "g">>, <<"f", "a", "c", "t", "o", "r", "y">>, <<"s", "i", "t", "e">>>>

\* for suffix in self.common_suffixes: one pass over the list, in list order
RECURSIVE StripSuffixes(_, _)
StripSuffixes(name, k) ==
  IF k > Len(common_suffixes) THEN name
  ELSE IF EndsWith(name, <<" ">> \o common_suffixes[k])
    THEN Only({StripSuffixes(n, k + 1) :
                 n \in {Strip(SubSeq(name, 1, Len(name) - Len(common_suffixes[k])))}})
    ELSE StripSuffixes(name, k + 1)

\* EntityResolver.normalize_name
normalize_name(name) ==
  IF ~TruthyStr(name) THEN <<>>
  ELSE Only({StripSuffixes(n, 1) : n \in {SubPunct(SubSpaces(Strip(StrLower(name))))}})

\* ' '.join(parts)
RECURSIVE Join(_)
Join(parts) ==
  IF parts = <<>> THEN <<>>
  ELSE IF Len(parts) = 1 THEN parts[1]
  ELSE parts[1] \o <<" ">> \o Join(Tail(parts))

\* EntityResolver.normalize_location
normalize_location(city, state) ==
  Join((IF TruthyStr(city) THEN <<Strip(StrLower(city))>> ELSE <<>>)
       \o (IF TruthyStr(state) THEN <<Strip(StrLower(state))>> ELSE <<>>))

\* the quotient taken over the first name's tokens instead of the union
calculate_similarity_first(name1, name2) ==
  IF ~TruthyStr(name1) \/ ~TruthyStr(name2) THEN [num |-> 0, den |-> 1]
  ELSE LET tokens1 == TokenSet(StrLower(name1))
           tokens2 == TokenSet(StrLower(name2))
       IN IF tokens1 = {} \/ tokens2 = {} THEN [num |-> 0, den |-> 1]
          ELSE [num |-> Cardinality(tokens1 \cap tokens2),
                den |-> Cardinality(tokens1)]

\* EntityResolver.calculate_similarity: the quotient num / den
calculate_similarity(name1, name2) ==
  IF ~TruthyStr(name1) \/ ~TruthyStr(name2) THEN [num |-> 0, den |-> 1]
  ELSE LET tokens1 == TokenSet(StrLower(name1))
           tokens2 == TokenSet(StrLower(name2))
       IN IF tokens1 = {} \/ tokens2 = {} THEN [num |-> 0, den |-> 1]
          ELSE [num |-> Cardinality(tokens1 \cap tokens2),
                den |-> Cardinality(tokens1 \cup tokens2)]

\* threshold: float = 0.8, in hundredths
threshold == 80

\* the state names of should_merge
states ==
  <<<<"g", "u", "j", "a", "r", "a", "t">>, <<"t", "a", "m", "i", "l", " ", "n", "a", "d", "u">>, <<"m", "a", "h", "a", "r", "a", "s", "h", "t", "r", "a">>, <<"h", "a", "r", "y", "a", "n", "a">>, <<"k", "a", "r", "n", "a", "t", "a", "k", "a">>,
    <<"u", "t", "t", "a", "r", " ", "p", "r", "a", "d", "e", "s", "h">>, <<"r", "a", "j", "a", "s", "t", "h", "a", "n">>, <<"p", "u", "n", "j", "a", "b">>, <<"t", "e", "l", "a", "n", "g", "a", "n", "a">>>>

\* loc.lower() if loc else ""
LocLower(loc) == IF TruthyStr(loc) THEN StrLower(loc) ELSE <<>>

\* Rule 2 of should_merge, on the normalized names and lowered locations
MergeRule2(norm_name1, loc1_lower, norm_name2, loc2_lower) ==
  \E name_sim \in {calculate_similarity(norm_name1, norm_name2)} :
    /\ 100 * name_sim.num >= threshold * name_sim.den
    /\ loc1_lower # <<>> /\ loc2_lower # <<>>
    /\ \E i \in 1..Len(states) :
         Contains(loc1_lower, states[i]) /\ Contains(loc2_lower, states[i])

\* the length test with every non-empty name passing
LongNameAny(norm_name) == Len(norm_name) > 0

\* if len(norm_name1) > 5
LongName(norm_name) == Len(norm_name) > 5

\* the decision with the length test applied only when both locations are empty
MergeNormalizedBothEmpty(norm_name1, loc1_lower, norm_name2, loc2_lower) ==
  IF norm_name1 = norm_name2 /\ norm_name1 # <<>>
    THEN IF loc1_lower = <<>> /\ loc2_lower = <<>>
           THEN LongName(norm_name1)
           ELSE \/ TokenSet(loc1_lower) \cap TokenSet(loc2_lower) # {}
                \/ MergeRule2(norm_name1, loc1_lower, norm_name2, loc2_lower)
    ELSE MergeRule2(norm_name1, loc1_lower, norm_name2, loc2_lower)

\* should_merge on the normalized names and lowered locations
MergeNormalized(norm_name1, loc1_lower, norm_name2, loc2_lower) ==
  IF norm_name1 = norm_name2 /\ norm_name1 # <<>>
    THEN IF loc1_lower = <<>> \/ loc2_lower = <<>>
           THEN LongName(norm_name1)
           ELSE \/ TokenSet(loc1_lower) \cap TokenSet(loc2_lower) # {}
                \/ MergeRule2(norm_name1, loc1_lower, norm_name2, loc2_lower)
    ELSE MergeRule2(norm_name1, loc1_lower, norm_name2, loc2_lower)

\* EntityResolver.should_merge with the default threshold
should_merge(name1, loc1, name2, loc2) ==
  \E n \in {<<normalize_name(name1), LocLower(loc1), normalize_name(name2), LocLower(loc2)>>} :
    MergeNormalized(n[1], n[2], n[3], n[4])

\* dict.get(key, default) on a candidate
DictGet(f, k, default) == IF k \in DOMAIN f THEN f[k] ELSE default

\* d[key] = value
DictSet(f, k, v) == [x \in DOMAIN f \cup {k} |-> IF x = k THEN v ELSE f[x]]

\* the truth value of the value stored under a key: name, city and state
\* hold a str, the dates (day numbers), the confidence (hundredths) and
\* merge_count a number, every other key a plain value
TruthyAt(k, v) ==
  IF k \in {"name", "city", "state"} THEN TruthyStr(v)
  ELSE IF k \in {"event_date", "announcement_date", "confidence", "merge_count"}
    THEN TruthyId(v)
  ELSE IF k = "was_merged" THEN v = TRUE
  ELSE Truthy(v)

\* the truth value of merged.get(key)
TruthyGet(f, k) == k \in DOMAIN f /\ TruthyAt(k, f[k])

\* div = fac.get('division', 'Unknown'), the key of division_groups
DivisionOf(fac) == DictGet(fac, "division", "Unknown")

\* the grouping that puts every candidate in one group
GroupAllTogether(facilities, i, groups) ==
  <<[n \in 1..Len(facilities) |-> n]>>

\* division_groups: the positions of the candidates of each division, the
\* divisions in order of first appearance (dict insertion order)
RECURSIVE GroupByDivision(_, _, _)
GroupByDivision(facilities, i, groups) ==
  IF i > Len(facilities) THEN groups
  ELSE LET div == DivisionOf(facilities[i])
           at == {g \in 1..Len(groups) : DivisionOf(facilities[groups[g][1]]) = div}
       IN GroupByDivision(facilities, i + 1,
            IF at = {} THEN Append(groups, <<i>>)
            ELSE [groups EXCEPT ![CHOOSE g \in at : TRUE] = Append(@, i)])

\* the arguments resolve_facilities passes to should_merge for fac1 and fac2
ShouldMergeFacilities(fac1, fac2) ==
  should_merge(DictGet(fac1, "name", <<>>),
               normalize_location(DictGet(fac1, "city", NoneStr), DictGet(fac1, "state", NoneStr)),
               DictGet(fac2, "name", <<>>),
               normalize_location(DictGet(fac2, "city", NoneStr), DictGet(fac2, "state", NoneStr)))

\* the increasing sequence of a set of positions
RECURSIVE Ascending(_)
Ascending(S) ==
  IF S = {} THEN <<>>
  ELSE LET m == CHOOSE x \in S : \A y \in S : x <= y IN <<m>> \o Ascending(S \ {m})

\* the loops over one division's fac_list: every candidate not yet merged
\* heads a merge_group and takes every later unmerged candidate that
\* should_merge with it
\* the grouping with a candidate also absorbed when it merges with a member
\* the anchor has absorbed
RECURSIVE MergeGroupsChained(_, _, _, _, _)
MergeGroupsChained(facilities, fac_list, i, merged_indices, merge_groups) ==
  IF i > Len(fac_list) THEN merge_groups
  ELSE IF i \in merged_indices
    THEN MergeGroupsChained(facilities, fac_list, i + 1, merged_indices, merge_groups)
  ELSE
    Only({MergeGroupsChained(facilities, fac_list, i + 1, merged_indices \cup J,
                             Append(merge_groups,
                                    <<fac_list[i]>> \o [n \in 1..Cardinality(J) |->
                                                          fac_list[Ascending(J)[n]]]) ) :
          J \in {{j \in (i + 1)..Len(fac_list) :
                    /\ j \notin merged_indices
                    /\ \E m \in i..(j - 1) :
                         /\ m \notin merged_indices
                         /\ m = i \/ ShouldMergeFacilities(facilities[fac_list[i]],
                                                           facilities[fac_list[m]])
                         /\ ShouldMergeFacilities(facilities[fac_list[m]],
                                                  facilities[fac_list[j]])}}})

RECURSIVE MergeGroups(_, _, _, _, _)
MergeGroups(facilities, fac_list, i, merged_indices, merge_groups) ==
  IF i > Len(fac_list) THEN merge_groups
  ELSE IF i \in merged_indices
    THEN MergeGroups(facilities, fac_list, i + 1, merged_indices, merge_groups)
  ELSE \* bind the members once
    Only({MergeGroups(facilities, fac_list, i + 1, merged_indices \cup J,
                      Append(merge_groups,
                             <<fac_list[i]>> \o [n \in 1..Cardinality(J) |-> fac_list[Ascending(J)[n]]]) ) :
          J \in {{j \in (i + 1)..Len(fac_list) :
                    /\ j \notin merged_indices
                    /\ ShouldMergeFacilities(facilities[fac_list[i]],
                                             facilities[fac_list[j]])}}})

\* the merge groups of all divisions, as positions in the argument list
RECURSIVE AllMergeGroups(_, _, _)
AllMergeGroups(facilities, division_groups, g) ==
  IF g > Len(division_groups) THEN <<>>
  ELSE MergeGroups(facilities, division_groups[g], 1, {}, <<>>)
       \o AllMergeGroups(facilities, division_groups, g + 1)

\* _merge_facility_group, first statement of the key loop: fill a missing value
FillMissing(merged, key, value) ==
  IF ~TruthyGet(merged, key) /\ TruthyAt(key, value)
    THEN DictSet(merged, key, value) ELSE merged

\* second statement: prefer the earliest date
EarliestDate(merged, key, value) ==
  IF key \in {"event_date", "announcement_date"} /\ TruthyAt(key, value)
       /\ (~TruthyGet(merged, key) \/ value < merged[key])
    THEN DictSet(merged, key, value) ELSE merged

\* third statement: prefer the highest confidence
HighestConfidence(merged, key, value) ==
  IF key = "confidence" /\ TruthyAt(key, value)
       /\ (~TruthyGet(merged, key) \/ value > merged[key])
    THEN DictSet(merged, key, value) ELSE merged

\* for key, value in fac.items(): the keys are handled independently
RECURSIVE MergeItems(_, _, _)
MergeItems(merged, fac, keys) ==
  IF keys = {} THEN merged
  ELSE LET key == CHOOSE k \in keys : TRUE IN
       Only({MergeItems(m3, fac, keys \ {key}) :
             m3 \in {Only({HighestConfidence(m2, key, fac[key]) :
                           m2 \in {Only({EarliestDate(m1, key, fac[key]) :
                                         m1 \in {FillMissing(merged, key, fac[key])}})}})}})

\* for fac in facilities[1:]
RECURSIVE MergeRest(_, _, _)
MergeRest(merged, group, n) ==
  IF n > Len(group) THEN merged
  ELSE Only({MergeRest(m, group, n + 1) : m \in {MergeItems(merged, group[n], DOMAIN group[n])}})

\* EntityResolver._merge_facility_group
\* the merge with merge_count counting only the absorbed candidates
merge_facility_group_absorbed(group) ==
  Only({DictSet(DictSet(m, "was_merged", TRUE), "merge_count", Len(group) - 1) :
        m \in {MergeRest(group[1], group, 2)}})

merge_facility_group(group) ==
  Only({DictSet(DictSet(m, "was_merged", TRUE), "merge_count", Len(group)) :
        m \in {MergeRest(group[1], group, 2)}})

\* EntityResolver.resolve_facilities: the merge groups and the resolved list
resolve_facilities(facilities) ==
  IF facilities = <<>> THEN [groups |-> <<>>, resolved |-> <<>>]
  ELSE Only({[groups |-> gs,
              resolved |-> [n \in 1..Len(gs) |->
                              merge_facility_group([m \in 1..Len(gs[n]) |-> facilities[gs[n][m]]])]] :
             gs \in {AllMergeGroups(facilities, GroupByDivision(facilities, 1, <<>>), 1)}})

(***************************************************************************)
(* The calls made on the resolver.                                         *)
(***************************************************************************)
\* the facility names, cities, states and locations passed to the resolver
Text ==
  [sanand |-> <<"S", "a", "n", "a", "n", "d">>, sanand_upper |-> <<"S", "A", "N", "A", "N", "D">>, pune_north |-> <<"P", "u", "n", "e", " ", " ", "N", "o", "r", "t", "h">>,
   a_and_b |-> <<"A", " ", "&", " ", "B">>, sanand_dash |-> <<"S", "a", "n", "a", "n", "d", " ", "-">>,
   sanand_plant |-> <<"S", "a", "n", "a", "n", "d", " ", "P", "l", "a", "n", "t">>, sanand_unit |-> <<"S", "a", "n", "a", "n", "d", " ", "U", "n", "i", "t">>,
   pune_plant |-> <<"P", "u", "n", "e", " ", "P", "l", "a", "n", "t">>, pune_unit |-> <<"P", "u", "n", "e", "\t", "U", "N", "I", "T">>, unit |-> <<"U", "n", "i", "t">>,
   sanand_mfg_facility |-> <<"S", "a", "n", "a", "n", "d", " ", "M", "a", "n", "u", "f", "a", "c", "t", "u", "r", "i", "n", "g", " ", "F", "a", "c", "i", "l", "i", "t", "y">>,
   sanand_mfg_site |-> <<"S", "a", "n", "a", "n", "d", " ", "M", "a", "n", "u", "f", "a", "c", "t", "u", "r", "i", "n", "g", " ", "S", "i", "t", "e">>,
   abcd |-> <<"A", " ", "B", " ", "C", " ", "D">>, abcde |-> <<"A", " ", "B", " ", "C", " ", "D", " ", "E">>, a_b |-> <<"a", " ", "b">>, a_c |-> <<"a", " ", "c">>,
   blank |-> <<" ", " ">>,
   city_sanand |-> <<"S", "a", "n", "a", "n", "d">>, city_ahmedabad |-> <<"A", "h", "m", "e", "d", "a", "b", "a", "d">>, city_pune |-> <<"P", "u", "n", "e">>,
   gujarat |-> <<"G", "u", "j", "a", "r", "a", "t">>, gujarat_comma |-> <<"G", "u", "j", "a", "r", "a", "t", ",">>, maharashtra |-> <<"M", "a", "h", "a", "r", "a", "s", "h", "t", "r", "a">>,
   loc_sanand |-> <<"s", "a", "n", "a", "n", "d", " ", "g", "u", "j", "a", "r", "a", "t">>, loc_ahmedabad |-> <<"a", "h", "m", "e", "d", "a", "b", "a", "d", " ", "g", "u", "j", "a", "r", "a", "t">>,
   loc_ahmedabad_comma |-> <<"A", "h", "m", "e", "d", "a", "b", "a", "d", " ", "G", "u", "j", "a", "r", "a", "t", ",">>, loc_pune |-> <<"p", "u", "n", "e">>]

\* the names without a generic suffix
BaseNames == {Text.sanand, Text.sanand_upper, Text.pune_north, Text.a_and_b, Text.sanand_dash}

\* name + " " + suffix for each suffix of the list, in order
RECURSIVE WithSuffixes(_, _)
WithSuffixes(name, ss) ==
  IF ss = <<>> THEN name
  ELSE WithSuffixes(name \o <<" ">> \o common_suffixes[Head(ss)], Tail(ss))

\* the arguments of normalize_name
RawNames ==
  {WithSuffixes(b, ss) : b \in BaseNames, ss \in SeqsUpTo(1..Len(common_suffixes), MaxSuffixes)}
    \cup {NoneStr, <<>>}

\* the name arguments of calculate_similarity and should_merge
MergeNames ==
  {Text.sanand_plant, Text.sanand_unit, Text.sanand, Text.pune_plant, Text.pune_unit,
   Text.unit, Text.sanand_mfg_facility, Text.sanand_mfg_site, Text.abcd, Text.abcde,
   Text.a_b, Text.a_c, Text.blank, <<>>, NoneStr}

\* the location arguments of should_merge
MergeLocations ==
  {Text.loc_sanand, Text.loc_ahmedabad, Text.loc_ahmedabad_comma, Text.loc_pune,
   Text.blank, <<>>, NoneStr}

\* the candidate dicts passed to resolve_facilities
Candidates ==
  {[name |-> Text.sanand_plant, division |-> "Wiring Systems",
    city |-> Text.city_sanand, state |-> Text.gujarat],
   [name |-> Text.sanand_unit, division |-> "Wiring Systems",
    city |-> Text.city_sanand, state |-> Text.gujarat],
   [name |-> Text.sanand_plant, division |-> "Vision Systems",
    city |-> Text.city_sanand, state |-> Text.gujarat],
   [name |-> Text.sanand_mfg_facility, division |-> "Wiring Systems",
    city |-> Text.city_sanand, state |-> Text.gujarat],
   [name |-> Text.sanand_mfg_site, division |-> "Wiring Systems",
    city |-> Text.city_sanand, state |-> Text.gujarat],
   [name |-> Text.unit, division |-> "Wiring Systems",
    city |-> Text.city_sanand, state |-> Text.gujarat],
   [name |-> Text.unit, division |-> "Wiring Systems",
    city |-> Text.city_ahmedabad, state |-> Text.gujarat_comma],
   [name |-> Text.pune_plant, division |-> "Wiring Systems"],
   [name |-> Text.pune_plant, division |-> "Wiring Systems",
    city |-> Text.city_pune, state |-> NoneStr],
   [name |-> Text.pune_plant, division |-> "Wiring Systems",
    city |-> Text.city_ahmedabad, state |-> Text.maharashtra],
   [name |-> Text.sanand_plant],
   [name |-> Text.sanand_plant, division |-> "Unknown", city |-> Text.city_sanand]}

\* candidate dicts of one facility carrying dates, confidences and a country
DatedCandidates ==
  {[name |-> Text.sanand_plant, division |-> "Wiring Systems",
    city |-> Text.city_sanand, state |-> Text.gujarat],
   [name |-> Text.sanand_plant, division |-> "Wiring Systems",
    event_date |-> 2, confidence |-> 50],
   [name |-> Text.sanand_plant, division |-> "Wiring Systems",
    event_date |-> 1, confidence |-> 90, country |-> "India"],
   [name |-> Text.sanand_plant, division |-> "Wiring Systems",
    event_date |-> NoneId, confidence |-> NoneId, country |-> None],
   [name |-> Text.sanand_plant, division |-> "Wiring Systems",
    confidence |-> 0, country |-> "Bharat"],
   [name |-> Text.sanand_plant, division |-> "Wiring Systems",
    event_date |-> 3, country |-> ""],
   [name |-> Text.sanand_plant, division |-> "Wiring Systems", city |-> Text.city_pune]}

\* one call of normalize_name by a sequential client
CallNormalizeName ==
  /\ rcall.fn = ""
  /\ \E name \in RawNames \cup MergeNames :
       rcall' = [fn |-> "normalize_name", args |-> <<name>>,
                 result |-> normalize_name(name), groups |-> <<>>]
  /\ UNCHANGED <<db, pc, batch, idx, company_id, stats, ingested, prev, dbcall, qcall>>

CallCalculateSimilarity ==
  /\ rcall.fn = ""
  /\ \E name1, name2 \in MergeNames :
       rcall' = [fn |-> "calculate_similarity", args |-> <<name1, name2>>,
                 result |-> calculate_similarity(name1, name2), groups |-> <<>>]
  /\ UNCHANGED <<db, pc, batch, idx, company_id, stats, ingested, prev, dbcall, qcall>>

CallShouldMerge ==
  /\ rcall.fn = ""
  /\ \E name1, name2 \in MergeNames, loc1, loc2 \in MergeLocations :
       rcall' = [fn |-> "should_merge", args |-> <<name1, loc1, name2, loc2>>,
                 result |-> should_merge(name1, loc1, name2, loc2), groups |-> <<>>]
  /\ UNCHANGED <<db, pc, batch, idx, company_id, stats, ingested, prev, dbcall, qcall>>

CallResolveFacilities ==
  /\ rcall.fn = ""
  /\ \E facilities \in SeqsUpTo(Candidates, MaxCandidates)
                         \cup SeqsUpTo(DatedCandidates, MaxCandidates) :
       \E r \in {resolve_facilities(facilities)} :
         rcall' = [fn |-> "resolve_facilities", args |-> <<facilities>>,
                   result |-> r.resolved, groups |-> r.groups]
  /\ UNCHANGED <<db, pc, batch, idx, company_id, stats, ingested, prev, dbcall, qcall>>

\* the client has consumed the result; the resolver keeps no state
ResolverReturn ==
  /\ rcall.fn # ""
  /\ rcall' = NoResolverCall
  /\ UNCHANGED <<db, pc, batch, idx, company_id, stats, ingested, prev, dbcall, qcall>>

InitResolver ==
  /\ db = EmptyDb
  /\ pc = "idle"
  /\ batch = <<>>
  /\ idx = 1
  /\ company_id = NoneId
  /\ stats = ZeroStats
  /\ ingested = 0
  /\ prev = [batch |-> <<>>, outcome |-> "none", facilities |-> 0, divisions |-> 0]
  /\ dbcall = NoCall
  /\ rcall = NoResolverCall
  /\ qcall = NoQueryCall

NextResolver ==
  \/ CallNormalizeName
  \/ CallCalculateSimilarity
  \/ CallShouldMerge
  \/ CallResolveFacilities
  \/ ResolverReturn

SpecResolver == InitResolver /\ [][NextResolver]_vars

(***************************************************************************)
(* GraphBuilder's query methods: query_facilities, query_expansions and    *)
(* query_jobs, each one SELECT through Database.execute_query and a loop   *)
(* over the rows.  Where SQL leaves the choice of a row open (LIMIT 1      *)
(* without a total order, rows with equal sort keys) a query is the set of *)
(* the results SQLite may return.                                          *)
(***************************************************************************)
\* SQLite's order of the TEXT dates of the model; NULL sorts below every value
DateKey(v) ==
  CASE v = None -> 0
    [] v = "2024-01-01" -> 1
    [] v = "2024-03-01" -> 2
    [] v = "2024-05-01" -> 3

\* the value as stored, without a default
OrStored(v, default) == v

\* Python's `x or default` on a str-or-None value
Or(v, default) == IF v \in {None, ""} THEN default ELSE v

\* the rows in ascending order, NULLs first
RECURSIVE OrderByDateAsc(_, _)
OrderByDateAsc(rows, col) ==
  IF rows = {} THEN {<<>>}
  ELSE UNION {{<<r>> \o rest : rest \in OrderByDateAsc(rows \ {r}, col)} :
                r \in {x \in rows : \A y \in rows : DateKey(x[col]) <= DateKey(y[col])}}

\* ORDER BY <col> DESC [NULLS LAST]: the orders the rows may come back in
RECURSIVE OrderByDateDesc(_, _)
OrderByDateDesc(rows, col) ==
  IF rows = {} THEN {<<>>}
  ELSE UNION {{<<r>> \o rest : rest \in OrderByDateDesc(rows \ {r}, col)} :
                r \in {x \in rows : \A y \in rows : DateKey(x[col]) >= DateKey(y[col])}}

\* LEFT JOIN <t> ON <t>.id = id, one column: NULL when no row matches
Lookup(d, t, id, col) ==
  IF RowExists(d, t, id)
    THEN d[t][CHOOSE i \in 1..Len(d[t]) : d[t][i].id = id][col]
    ELSE None

\* the events of one facility
EventsOf(d, fid) == {d.events[i] : i \in {j \in 1..Len(d.events) : d.events[j].facility_id = fid}}

\* the status of any event of the facility, whatever its date
AnyStatus(d, fid) ==
  IF EventsOf(d, fid) = {} THEN {None} ELSE {e.status : e \in EventsOf(d, fid)}

\* (SELECT status FROM events e2 WHERE e2.facility_id = f.id
\*  ORDER BY e2.event_date DESC LIMIT 1)
LatestStatus(d, fid) ==
  IF EventsOf(d, fid) = {} THEN {None}
  ELSE {s[1].status : s \in OrderByDateDesc(EventsOf(d, fid), "event_date")}

\* (SELECT <col> FROM sources s JOIN evidence ev ON ev.source_id = s.id
\*  WHERE ev.entity_id = f.id AND ev.entity_type = 'FACILITY' LIMIT 1)
SourceColumn(d, fid, col) ==
  LET found == {d.sources[s][col] :
                  s \in {k \in 1..Len(d.sources) :
                           \E i \in 1..Len(d.evidence) :
                             /\ d.evidence[i].source_id = d.sources[k].id
                             /\ d.evidence[i].entity_id = fid
                             /\ d.evidence[i].entity_type = "FACILITY"}}
  IN IF found = {} THEN {None} ELSE found

\* GraphBuilder.query_facilities(division, state, status)
query_facilities(d, division, state, status) ==
  LET fs == SelectSeq(d.facilities, LAMBDA f :
              /\ Truthy(division) => SqlEq(Lookup(d, "divisions", f.division_id, "name"), division)
              /\ Truthy(state) => SqlEq(f.state, state))
      dates(f) == {e.event_date : e \in EventsOf(d, f.id)} \ {None}
      tagged(f) == {e.expansion_type : e \in EventsOf(d, f.id)} \ {None}
      rows(f) ==
        {[id |-> f.id, name |-> f.name, facility |-> f.name, city |-> f.city,
          state |-> f.state, country |-> f.country,
          division |-> Lookup(d, "divisions", f.division_id, "name"),
          first_date |-> IF dates(f) = {} THEN None
                         ELSE CHOOSE x \in dates(f) : \A y \in dates(f) : DateKey(x) <= DateKey(y),
          last_event_date |-> IF dates(f) = {} THEN None
                              ELSE CHOOSE x \in dates(f) : \A y \in dates(f) : DateKey(x) >= DateKey(y),
          status |-> Or(st, "operational"),
          expansion_type |-> et,
          url |-> Or(u, "https://www.motherson.com/contact/address-directory"),
          source_title |-> Or(t, "Motherson Address Directory"),
          publish_date |-> p,
          confidence |-> 90] :
           st \in LatestStatus(d, f.id),
           et \in IF tagged(f) = {} THEN {None} ELSE tagged(f),
           u \in SourceColumn(d, f.id, "url"),
           t \in SourceColumn(d, f.id, "title"),
           p \in SourceColumn(d, f.id, "publish_date")}
      keep(r) == Truthy(status) => LowerOf(r.status) = LowerOf(status)
  IN {SelectSeq(s, keep) :
        s \in {x \in [1..Len(fs) -> UNION {rows(fs[i]) : i \in 1..Len(fs)}] :
                 \A i \in 1..Len(fs) : x[i] \in rows(fs[i])}}

\* the date filters with the bounds themselves left out
InDateBoundsExclusive(event_date, date_from, date_to) ==
  /\ Truthy(date_from) => (event_date = None \/ DateKey(event_date) > DateKey(date_from))
  /\ Truthy(date_to) => (event_date = None \/ DateKey(event_date) < DateKey(date_to))

\* query_expansions: AND (e.event_date >= ? OR e.event_date IS NULL) if date_from,
\* AND (e.event_date <= ? OR e.event_date IS NULL) if date_to, on both SELECTs
InDateBounds(event_date, date_from, date_to) ==
  /\ Truthy(date_from) => (event_date = None \/ DateKey(event_date) >= DateKey(date_from))
  /\ Truthy(date_to) => (event_date = None \/ DateKey(event_date) <= DateKey(date_to))

\* every row converted, none skipped
RECURSIVE ConvertAll(_, _, _)
ConvertAll(all_rows, i, seen) ==
  IF i > Len(all_rows) THEN <<>>
  ELSE <<[all_rows[i] EXCEPT !.confidence = IF TruthyId(@) THEN @ ELSE 70]>>
         \o ConvertAll(all_rows, i + 1, seen)

\* the loop of query_expansions over all_rows from row i on: a row whose
\* lower-cased (name, city) key was seen, or is ('', ''), is skipped; the
\* others become result dictionaries with the defaults filled in
RECURSIVE Deduplicate(_, _, _)
Deduplicate(all_rows, i, seen) ==
  IF i > Len(all_rows) THEN <<>>
  ELSE
    LET r == all_rows[i]
        key == <<LowerOf(Or(r.facility, "")), LowerOf(Or(r.city, ""))>>
    IN IF key \in seen \/ key = <<"", "">> THEN Deduplicate(all_rows, i + 1, seen)
       ELSE <<[facility |-> r.facility, city |-> r.city, state |-> r.state,
               division |-> r.division, event_date |-> r.event_date,
               timeline |-> Or(r.event_date, "FY 2024-25"),
               expansion_type |-> Or(r.expansion_type, "greenfield"),
               status |-> Or(r.status, "planned"),
               confidence |-> IF TruthyId(r.confidence) THEN r.confidence ELSE 70,
               url |-> Or(r.url, "https://www.motherson.com"),
               source_title |-> Or(r.source_title, "Motherson Document"),
               publish_date |-> r.publish_date]>>
              \o Deduplicate(all_rows, i + 1, seen \cup {key})

\* GraphBuilder.query_expansions(date_from, date_to): the events with an
\* expansion_type (rows1), then the planned and under-construction ones as
\* 'expansion' (rows2), and the list returned
query_expansions(d, date_from, date_to) ==
  LET NoSource == [url |-> None, title |-> None, publish_date |-> None]
      evidence(f) == {i \in 1..Len(d.evidence) :
                        /\ d.evidence[i].entity_id = f.id
                        /\ d.evidence[i].entity_type = "FACILITY"}
      sources(f) ==
        IF evidence(f) = {} THEN {NoSource}
        ELSE UNION {IF RowExists(d, "sources", d.evidence[i].source_id)
                      THEN {[url |-> d.sources[k].url, title |-> d.sources[k].title,
                             publish_date |-> d.sources[k].publish_date] :
                              k \in {j \in 1..Len(d.sources) :
                                       d.sources[j].id = d.evidence[i].source_id}}
                      ELSE {NoSource} : i \in evidence(f)}
      joined(e, f, expansion_type) ==
        {[facility |-> f.name, city |-> f.city, state |-> f.state,
          division |-> Lookup(d, "divisions", f.division_id, "name"),
          event_date |-> e.event_date, expansion_type |-> expansion_type,
          status |-> e.status, confidence |-> e.confidence,
          url |-> s.url, source_title |-> s.title, publish_date |-> s.publish_date] :
           s \in sources(f)}
      select(family) ==
        UNION {joined(d.events[p[1]], d.facilities[p[2]],
                      IF family = 1 THEN d.events[p[1]].expansion_type ELSE "expansion") :
                 p \in {q \in (1..Len(d.events)) \X (1..Len(d.facilities)) :
                          /\ d.events[q[1]].facility_id = d.facilities[q[2]].id
                          /\ IF family = 1 THEN d.events[q[1]].expansion_type # None
                             ELSE d.events[q[1]].status \in {"planned", "under-construction"}
                          /\ InDateBounds(d.events[q[1]].event_date, date_from, date_to)}}
  IN {[rows1 |-> rows1, rows2 |-> rows2, results |-> Deduplicate(rows1 \o rows2, 1, {})] :
        rows1 \in OrderByDateDesc(select(1), "event_date"),
        rows2 \in OrderByDateDesc(select(2), "event_date")}

\* GraphBuilder.query_jobs(factory_only)
query_jobs(d, factory_only) ==
  LET selected == {d.jobs[i] : i \in {j \in 1..Len(d.jobs) :
                                         factory_only => d.jobs[j].is_factory_role = 1}}
      Result(r) ==
        [id |-> r.id, title |-> r.title, location |-> Or(r.location, "India"),
         posted_date |-> r.posted_date, description |-> r.description,
         facility |-> Or(Lookup(d, "facilities", r.facility_id, "name"), "Multiple Locations"),
         division |-> Or(Lookup(d, "divisions", r.division_id, "name"), "Unknown"),
         is_factory_role |-> TruthyId(r.is_factory_role),
         url |-> Or(Lookup(d, "sources", r.source_id, "url"), "https://careers.motherson.com"),
         source_title |-> Or(Lookup(d, "sources", r.source_id, "title"), "Motherson Careers"),
         confidence |-> 85]
  IN {[i \in 1..Len(rows) |-> Result(rows[i])] : rows \in OrderByDateDesc(selected, "posted_date")}

(***************************************************************************)
(* The query methods called by a client on a store that holds three        *)
(* facilities and the events or jobs the client has inserted with          *)
(* Database.execute_insert.  Two of the facilities differ only in the case *)
(* of name and city, the third has neither; the first has evidence from a  *)
(* stored source, the second evidence whose source row does not exist, the *)
(* third only evidence of another entity type.                             *)
(***************************************************************************)
\* the store before the client's inserts: execute_insert of the first n of
\* these rows on a new database
RECURSIVE QueryDb(_)
QueryDb(n) ==
  LET rows ==
      << <<"companies", [id |-> 0, name |-> "Motherson"]>>,
         <<"divisions", [id |-> 0, company_id |-> 1, name |-> "Wiring Systems"]>>,
         <<"sources", [id |-> 0, url |-> "https://www.motherson.com/news/alpha",
                       title |-> "Alpha Plant opens", fetched_at |-> None,
                       mime_type |-> "text/html", publish_date |-> "2024-01-01",
                       source_type |-> "web"]>>,
         <<"facilities", [id |-> 0, division_id |-> 1, name |-> "Alpha Plant", city |-> "Pune",
                          state |-> "Maharashtra", country |-> "India",
                          normalized_name |-> "alpha plant"]>>,
         <<"facilities", [id |-> 0, division_id |-> NoneId, name |-> "ALPHA PLANT", city |-> "PUNE",
                          state |-> None, country |-> "India",
                          normalized_name |-> "alpha plant"]>>,
         <<"facilities", [id |-> 0, division_id |-> NoneId, name |-> None, city |-> None,
                          state |-> None, country |-> "India", normalized_name |-> None]>>,
         <<"evidence", [id |-> 0, source_id |-> 1, entity_type |-> "FACILITY", entity_id |-> 1,
                        text_snippet |-> "Alpha Plant", confidence |-> 90]>>,
         <<"evidence", [id |-> 0, source_id |-> 2, entity_type |-> "FACILITY", entity_id |-> 2,
                        text_snippet |-> "ALPHA PLANT", confidence |-> 90]>>,
         <<"evidence", [id |-> 0, source_id |-> 1, entity_type |-> "EVENT", entity_id |-> 3,
                        text_snippet |-> "expansion", confidence |-> 90]>> >>
  IN IF n = 0 THEN EmptyDb
     ELSE ExecuteInsert(QueryDb(n - 1), rows[n][1], rows[n][2], FALSE).db

InitQuery ==
  /\ db = QueryDb(9)
  /\ pc = "idle"
  /\ batch = <<>>
  /\ idx = 1
  /\ company_id = NoneId
  /\ stats = ZeroStats
  /\ ingested = 0
  /\ prev = [batch |-> <<>>, outcome |-> "none", facilities |-> 0, divisions |-> 0]
  /\ dbcall = NoCall
  /\ rcall = NoResolverCall
  /\ qcall = NoQueryCall

\* the client inserts an event row
AddEvent ==
  /\ qcall.fn = ""
  /\ Len(db.events) < MaxEvents
  /\ \E ev \in
       {[id |-> 0, facility_id |-> e[1], event_type |-> "expansion", event_date |-> e[2],
         status |-> e[3], expansion_type |-> e[4], confidence |-> e[5]] :
          e \in {<<1, "2024-01-01", "planned", None, 80>>,
                 <<1, "2024-05-01", "operational", None, 80>>,
                 <<1, None, "planned", None, NoneId>>,
                 <<1, "2024-03-01", None, "brownfield", 90>>,
                 <<1, None, "under-construction", "greenfield", 80>>,
                 <<2, "2024-01-01", "planned", None, 80>>,
                 <<2, None, "planned", None, NoneId>>,
                 <<2, "2024-03-01", None, "brownfield", 90>>,
                 <<3, None, "planned", None, NoneId>>}} :
       db' = ExecuteInsert(db, "events", ev, FALSE).db
  /\ UNCHANGED <<pc, batch, idx, company_id, stats, ingested, prev, dbcall, rcall, qcall>>

\* the client calls query_facilities
QueryFacilities ==
  /\ qcall.fn = ""
  /\ \E division \in {None, "Wiring Systems"}, state \in {None, "Maharashtra"},
        status \in {None, "planned", "operational"} :
       \E result \in query_facilities(db, division, state, status) :
         qcall' = [fn |-> "query_facilities", args |-> <<division, state, status>>,
                   result |-> result, rows |-> <<>>]
  /\ UNCHANGED <<db, pc, batch, idx, company_id, stats, ingested, prev, dbcall, rcall>>

\* the client calls query_expansions
QueryExpansions ==
  /\ qcall.fn = ""
  /\ \E date_from \in {None, "2024-03-01"}, date_to \in {None, "2024-01-01", "2024-03-01"} :
       \E r \in query_expansions(db, date_from, date_to) :
         qcall' = [fn |-> "query_expansions", args |-> <<date_from, date_to>>,
                   result |-> r.results, rows |-> <<r.rows1, r.rows2>>]
  /\ UNCHANGED <<db, pc, batch, idx, company_id, stats, ingested, prev, dbcall, rcall>>

\* the client inserts a job row
AddJob ==
  /\ qcall.fn = ""
  /\ Len(db.jobs) < MaxJobs
  /\ \E posted_date \in {None, "2024-01-01", "2024-05-01"}, is_factory_role \in {0, 1} :
       db' = ExecuteInsert(db, "jobs",
               [id |-> 0, facility_id |-> IF is_factory_role = 1 THEN 1 ELSE NoneId,
                title |-> IF is_factory_role = 1 THEN "Plant Operator" ELSE "Accountant",
                location |-> IF is_factory_role = 1 THEN "Pune" ELSE None,
                division_id |-> IF is_factory_role = 1 THEN 1 ELSE NoneId,
                is_factory_role |-> is_factory_role,
                source_id |-> IF posted_date = None THEN NoneId ELSE 1,
                posted_date |-> posted_date, description |-> None], FALSE).db
  /\ UNCHANGED <<pc, batch, idx, company_id, stats, ingested, prev, dbcall, rcall, qcall>>

\* the client calls query_jobs
QueryJobs ==
  /\ qcall.fn = ""
  /\ \E factory_only \in BOOLEAN :
       \E result \in query_jobs(db, factory_only) :
         qcall' = [fn |-> "query_jobs", args |-> <<factory_only>>, result |-> result,
                   rows |-> <<>>]
  /\ UNCHANGED <<db, pc, batch, idx, company_id, stats, ingested, prev, dbcall, rcall>>

\* the client has the rows and goes on
QueryReturn ==
  /\ qcall.fn # ""
  /\ qcall' = NoQueryCall
  /\ UNCHANGED <<db, pc, batch, idx, company_id, stats, ingested, prev, dbcall, rcall>>

NextQuery ==
  \/ AddEvent
  \/ QueryFacilities
  \/ QueryExpansions
  \/ QueryReturn

SpecQuery == InitQuery /\ [][NextQuery]_vars

\* the same store with jobs inserted and query_jobs called
NextJobs ==
  \/ AddJob
  \/ QueryJobs
  \/ QueryReturn

SpecJobs == InitQuery /\ [][NextJobs]_vars

(***************************************************************************)
(* Properties.                                                             *)
(***************************************************************************)
IsPrefix(s, t) == Len(s) <= Len(t) /\ \A i \in 1..Len(s) : s[i] = t[i]

\* a step of the item loop is about to process batch[idx]
AtItem == pc = "loop" /\ idx <= Len(batch)

\* the case-insensitive (name, city) key of a Facility row
FacilityKey(r) == <<SqlLower(r.name), SqlLower(r.city)>>

\* C1: idempotent ingestion -- when build_graph has returned twice in a row
\* on the identical batch, the Facility and Division counts after the second
\* run equal those after the first run.
C1_IdempotentIngestion ==
  (pc = "returned" /\ prev.outcome = "returned" /\ prev.batch = batch)
    => /\ Len(db.facilities) = prev.facilities
       /\ Len(db.divisions) = prev.divisions

\* C2: during the first ingestion pass on an empty store no two Facility rows
\* share the same case-insensitive (name, city) key, a NULL city included.
C2_UniqueFacilityKey ==
  prev.outcome = "none" =>
    \A i, j \in 1..Len(db.facilities) :
      i # j => FacilityKey(db.facilities[i]) # FacilityKey(db.facilities[j])

\* C3: at most one Company row; every Facility with a division_id references
\* an existing Division; every Event references an existing Facility.
C3_ReferentialInvariants ==
  /\ Len(db.companies) <= 1
  /\ \A i \in 1..Len(db.facilities) :
       db.facilities[i].division_id # NoneId
         => RowExists(db, "divisions", db.facilities[i].division_id)
  /\ \A i \in 1..Len(db.events) :
       RowExists(db, "facilities", db.events[i].facility_id)

\* C3 witness: after more than one ingestion call there is a Company, a
\* Facility attached to a Division and several Events.
C3_Witness ==
  /\ prev.outcome # "none"
  /\ pc \in {"returned", "raised"}
  /\ Len(db.companies) = 1
  /\ Len(db.events) >= 2
  /\ \E i \in 1..Len(db.facilities) : db.facilities[i].division_id # NoneId

\* C4: a failure while processing one item does not abort the batch -- every
\* iteration of the item loop ends with the loop moving on to the next item.
C4_BatchContinues ==
  [][AtItem => (pc' = "loop" /\ idx' = idx + 1)]_vars

\* number of structured candidates of the item handled before the first one
\* whose division is null (none when the list is not iterable)
HandledBeforeFailure(item) ==
  LET sf == item.source_data.structured_facilities IN
  IF sf.kind # "list" THEN 0
  ELSE LET bad == {i \in 1..Len(sf.elems) : sf.elems[i].division = None}
       IN IF bad = {} THEN Len(sf.elems)
          ELSE (CHOOSE i \in bad : \A j \in bad : i <= j) - 1

\* C5: no rollback -- no step removes or alters a stored row, and when an item
\* fails the rows it wrote before the failure (its Source row, the Events of
\* the candidates handled before the failing one) are in the store.
C5_NoRollback ==
  [][/\ \A t \in Tables : IsPrefix(db[t], db'[t])
     /\ (AtItem /\ pc' = "raised") =>
          LET item == batch[idx]
              url == Get(item.source_data, "url", "unknown")
          IN /\ url # Unbindable =>
                  \E i \in 1..Len(db'.sources) : db'.sources[i].url = url
             /\ Len(db'.events) = Len(db.events) + HandledBeforeFailure(item)
             /\ Len(db'.evidence) = Len(db.evidence) + HandledBeforeFailure(item)]_vars

\* C5 witness: the second item of a batch failed after the first was stored
\* and after it had itself written rows.
C5_Witness ==
  /\ pc = "raised"
  /\ idx = 2
  /\ batch[1] = ItemDirectory
  /\ batch[2] = ItemNullDivision
  /\ Len(db.sources) = 2
  /\ Len(db.events) = 3

\* C6: an item with k structured facility candidates raises the Event count
\* and the Evidence count by k each, the new Evidence rows being FACILITY
\* rows of confidence 0.9 whose snippet is the candidate's name and whose
\* entity_id is a Facility.
C6_EventAndEvidencePerCandidate ==
  [][(AtItem /\ pc' = "loop"
        /\ batch[idx].source_data.structured_facilities.kind = "list")
       => LET facs == batch[idx].source_data.structured_facilities.elems
              k == Len(facs)
          IN /\ Len(db'.events) = Len(db.events) + k
             /\ Len(db'.evidence) = Len(db.evidence) + k
             /\ \A i \in 1..k :
                  LET ev == db'.evidence[Len(db.evidence) + i] IN
                    /\ ev.entity_type = "FACILITY"
                    /\ ev.confidence = StructuredEvidenceConfidence
                    /\ ev.text_snippet = facs[i].name
                    /\ RowExists(db', "facilities", ev.entity_id)]_vars

\* C7: an item with structured job candidates appends one Job row per
\* candidate, with is_factory_role = 1 when the candidate lacks the field.
C7_StructuredJobsFactoryRole ==
  [][(AtItem /\ pc' = "loop"
        /\ batch[idx].source_data.structured_jobs.kind = "list")
       => LET js == batch[idx].source_data.structured_jobs.elems IN
          /\ Len(db'.jobs) = Len(db.jobs) + Len(js)
          /\ \A i \in 1..Len(js) :
               js[i].is_factory_role = Absent
                 => db'.jobs[Len(db.jobs) + i].is_factory_role = 1]_vars

\* C8: the source_id of every Evidence row is null or the id of a Source row.
C8_EvidenceSourceExists ==
  \A i \in 1..Len(db.evidence) :
    \/ db.evidence[i].source_id = NoneId
    \/ RowExists(db, "sources", db.evidence[i].source_id)

\* source_data.get('url', 'unknown')
UrlOf(sd) == IF sd.url = Absent THEN "unknown" ELSE sd.url

\* the Source row build_graph stores for an item that brings a new url
SourceRowOf(sd, id) ==
  [id |-> id,
   url |-> UrlOf(sd),
   title |-> IF sd.title = Absent THEN "Untitled" ELSE sd.title,
   fetched_at |-> IF sd.fetched_at = Absent THEN None ELSE sd.fetched_at,
   mime_type |-> IF sd.mime = Absent THEN "text/html" ELSE sd.mime,
   publish_date |-> IF sd.publish_dt = Absent THEN None ELSE sd.publish_dt,
   source_type |-> IF sd.source_type = Absent THEN "web" ELSE sd.source_type]

\* C9: first write wins -- there is at most one Source row per (non-null)
\* url; an item whose url is already stored leaves the Source rows as they
\* are, an item with a new url (or a null one, which is no key) appends the
\* row made of its own fields, and no other step touches the Source rows.
C9_SourceFirstWriteWins ==
  [][/\ \A i, j \in 1..Len(db'.sources) :
          (i # j /\ db'.sources[i].url # None)
            => db'.sources[i].url # db'.sources[j].url
     /\ IF AtItem /\ UrlOf(batch[idx].source_data) # Unbindable
          THEN LET sd == batch[idx].source_data IN
               IF UrlOf(sd) # None
                    /\ \E i \in 1..Len(db.sources) : db.sources[i].url = UrlOf(sd)
                 THEN db'.sources = db.sources
                 ELSE /\ Len(db'.sources) = Len(db.sources) + 1
                      /\ IsPrefix(db.sources, db'.sources)
                      /\ LET new == db'.sources[Len(db'.sources)] IN
                           new = SourceRowOf(sd, new.id)
          ELSE db'.sources = db.sources]_vars

\* C9 witness: two items with the same url and different metadata have been
\* ingested and the stored row is the first one's.
C9_Witness ==
  /\ pc = "loop"
  /\ idx = 3
  /\ batch[1] = ItemDirectory
  /\ batch[2] = ItemNoCity
  /\ Len(db.sources) = 1
  /\ db.sources[1].title = "Address Directory"
  /\ db.sources[1].source_type = "web"

\* C10: a direct insert whose parent row does not exist fails with a
\* referential-integrity error and adds no row.
C10_ForeignKeyEnforced ==
  (dbcall.table # "" /\ ~dbcall.parentExists)
    => (dbcall.err = "IntegrityError" /\ dbcall.added = 0)

\* C11: every Store read and write releases the connection it opened on
\* every exit path -- once the operation has returned or raised, none of the
\* connections it created is open.
C11_ConnectionReleased ==
  dbcall.op # "" => dbcall.open = 0

\* C12: the counts build_graph returns reflect the rows touched -- in
\* particular, when the call that has returned upserted at least one Division
\* (the first call on a new store, which now holds a Division row), the
\* returned divisions count is greater than zero.
C12_DivisionsCounted ==
  (pc = "returned" /\ prev.outcome = "none" /\ Len(db.divisions) > 0)
    => stats.divisions > 0

\* a call of resolve_facilities has returned
Resolved == rcall.fn = "resolve_facilities"

\* the candidates of the n-th merge group of the returned call, in order
GroupMembers(n) == [m \in 1..Len(rcall.groups[n]) |-> rcall.args[1][rcall.groups[n][m]]]

\* the division name a candidate carries ('Unknown' when it carries none)
CarriedDivision(fac) == IF "division" \in DOMAIN fac THEN fac.division ELSE "Unknown"

\* C13: resolve_facilities never merges across divisions -- every output
\* record is built only from candidates that carry the same division name,
\* and every candidate goes into exactly one output record, so candidates of
\* different divisions end up in different output records.
C13_NoCrossDivisionMerge ==
  Resolved =>
    /\ Len(rcall.result) = Len(rcall.groups)
    /\ \A i \in 1..Len(rcall.args[1]) :
         Cardinality({n \in 1..Len(rcall.groups) :
                        \E m \in 1..Len(rcall.groups[n]) : rcall.groups[n][m] = i}) = 1
    /\ \A n \in 1..Len(rcall.groups) :
         \A a, b \in 1..Len(rcall.groups[n]) :
           CarriedDivision(GroupMembers(n)[a]) = CarriedDivision(GroupMembers(n)[b])

\* C13 witness: two candidates with the same name, city and state and with
\* different divisions have been resolved into two records.
C13_Witness ==
  /\ Resolved
  /\ Len(rcall.args[1]) = 2
  /\ rcall.args[1][1] = [name |-> Text.sanand_plant, division |-> "Wiring Systems",
                         city |-> Text.city_sanand, state |-> Text.gujarat]
  /\ rcall.args[1][2] = [name |-> Text.sanand_plant, division |-> "Vision Systems",
                         city |-> Text.city_sanand, state |-> Text.gujarat]
  /\ Len(rcall.result) = 2

\* the Jaccard index of two token sets is at least 0.8
JaccardAtLeast80(A, B) ==
  /\ A \cup B # {}
  /\ 100 * Cardinality(A \cap B) >= 80 * Cardinality(A \cup B)

\* both locations contain the same state name of the fixed list
CommonState(l1, l2) ==
  \E i \in 1..Len(states) : Contains(l1, states[i]) /\ Contains(l2, states[i])

\* Rule B: Jaccard of the normalized-name token sets >= 0.8, both locations
\* non-empty, and both containing a common state name
RuleB(n1, l1, n2, l2) ==
  /\ JaccardAtLeast80(TokenSet(n1), TokenSet(n2))
  /\ l1 # <<>> /\ l2 # <<>>
  /\ CommonState(l1, l2)

ShortNamePair ==
  /\ Resolved
  /\ Len(rcall.args[1]) = 2
  /\ LET fac1 == rcall.args[1][1]
         fac2 == rcall.args[1][2]
     IN /\ CarriedDivision(fac1) = CarriedDivision(fac2)
        /\ "name" \in DOMAIN fac1 /\ "name" \in DOMAIN fac2
        /\ fac1.name = fac2.name
        /\ Len(normalize_name(fac1.name)) <= 5
        /\ TokenSet(normalize_location(DictGet(fac1, "city", NoneStr),
                                       DictGet(fac1, "state", NoneStr)))
             \cap TokenSet(normalize_location(DictGet(fac2, "city", NoneStr),
                                              DictGet(fac2, "state", NoneStr))) = {}

\* the two locations of the pair both contain a common state name
PairCommonState ==
  LET fac1 == rcall.args[1][1]
      fac2 == rcall.args[1][2]
  IN CommonState(normalize_location(DictGet(fac1, "city", NoneStr),
                                    DictGet(fac1, "state", NoneStr)),
                 normalize_location(DictGet(fac2, "city", NoneStr),
                                    DictGet(fac2, "state", NoneStr)))

\* C15 as stated: two candidates of the same division with identical names,
\* normalized length at most 5, and location token sets that do not intersect
\* (one or both locations empty included) come back as two separate records.
C15_ShortNamesNotMerged ==
  ShortNamePair => Len(rcall.result) = 2

\* C15 amended: ... and whose locations do not both contain a common state
\* name come back as two separate records, each a group of one.
C15_ShortNamesNotMergedNoCommonState ==
  (ShortNamePair /\ ~PairCommonState)
    => /\ Len(rcall.result) = 2
       /\ \A n \in 1..2 : Len(rcall.groups[n]) = 1

\* C15 witness: two "Pune Plant" candidates of one division, one without a
\* location and one in Pune, have been resolved into two records.
C15_Witness ==
  /\ ShortNamePair
  /\ ~PairCommonState
  /\ rcall.args[1][1] = [name |-> Text.pune_plant, division |-> "Wiring Systems"]
  /\ rcall.args[1][2] = [name |-> Text.pune_plant, division |-> "Wiring Systems",
                         city |-> Text.city_pune, state |-> NoneStr]
  /\ Len(rcall.result) = 2

\* the two names are one base followed by a generic suffix each
DifferOnlyBySuffix(name1, name2) ==
  \E i, j \in 1..Len(common_suffixes) :
    LET s1 == <<" ">> \o common_suffixes[i]
        s2 == <<" ">> \o common_suffixes[j]
        l1 == StrLower(name1)
        l2 == StrLower(name2)
    IN /\ EndsWith(l1, s1) /\ EndsWith(l2, s2)
       /\ Len(l1) > Len(s1)
       /\ SubSeq(l1, 1, Len(l1) - Len(s1)) = SubSeq(l2, 1, Len(l2) - Len(s2))

\* C16: two candidates of the same division whose names differ only by a
\* generic suffix and that share the same city and state are returned as
\* exactly one record with was_merged = true and merge_count = 2.
C16_SuffixVariantsMerged ==
  (/\ Resolved
   /\ Len(rcall.args[1]) = 2
   /\ LET fac1 == rcall.args[1][1]
          fac2 == rcall.args[1][2]
      IN /\ CarriedDivision(fac1) = CarriedDivision(fac2)
         /\ {"name", "city", "state"} \subseteq DOMAIN fac1 \cap DOMAIN fac2
         /\ TruthyStr(fac1.city) /\ TruthyStr(fac1.state)
         /\ fac1.city = fac2.city /\ fac1.state = fac2.state
         /\ TruthyStr(fac1.name) /\ TruthyStr(fac2.name)
         /\ DifferOnlyBySuffix(fac1.name, fac2.name))
    => /\ Len(rcall.result) = 1
       /\ rcall.result[1].was_merged = TRUE
       /\ rcall.result[1].merge_count = 2

\* the lowercase, whitespace-collapsed, punctuation-free form of a name
CleanForm(b) == Join(Split(SubPunct(StrLower(b))))

\* C17: normalize_name is case-insensitive and strips generic suffixes -- for
\* every base name b and every suffix s of the list, normalize(b + " " + s)
\* = normalize(b) = the lowercase, whitespace-collapsed, punctuation-free
\* form of b.
C17_SuffixStripped ==
  \A b \in BaseNames : \A i \in 1..Len(common_suffixes) :
    (rcall.fn = "normalize_name" /\ rcall.args[1] = WithSuffixes(b, <<i>>))
      => /\ rcall.result = normalize_name(b)
         /\ rcall.result = CleanForm(b)

\* the set of lowercased tokens of a name (no tokens for None)
NameTokens(name) == IF TruthyStr(name) THEN TokenSet(StrLower(name)) ELSE {}

\* C18: calculate_similarity is the Jaccard index of the token sets of the
\* two names, |A /\ B| / |A \/ B|; it is 0 when either token set is empty,
\* and for the token sets {a, b} and {a, c} it is 1/3.
C18_JaccardIndex ==
  rcall.fn = "calculate_similarity" =>
    LET A == NameTokens(rcall.args[1])
        B == NameTokens(rcall.args[2])
    IN /\ rcall.result.den > 0
       /\ IF A = {} \/ B = {} THEN rcall.result.num = 0
          ELSE rcall.result.num * Cardinality(A \cup B)
                 = Cardinality(A \cap B) * rcall.result.den
       /\ (A = {<<"a">>, <<"b">>} /\ B = {<<"a">>, <<"c">>})
            => 3 * rcall.result.num = rcall.result.den

\* C18 witness: the names "a b" and "a c" have been compared and the result
\* is 1/3.
C18_Witness ==
  /\ rcall.fn = "calculate_similarity"
  /\ rcall.args = <<Text.a_b, Text.a_c>>
  /\ rcall.result = [num |-> 1, den |-> 3]

\* C19: a singleton group passes through resolve_facilities unchanged -- the
\* output record of a candidate that merges with no other candidate has
\* exactly the keys and values of that candidate, with nothing added.
C19_SingletonUnchanged ==
  Resolved =>
    \A n \in 1..Len(rcall.groups) :
      Len(rcall.groups[n]) = 1 => rcall.result[n] = GroupMembers(n)[1]

\* the keys the merge treats specially
DateKeys == {"event_date", "announcement_date"}
MergeKeys == DateKeys \cup {"confidence", "was_merged", "merge_count"}

\* the values other than None that the candidates of a group hold under a key
NonNull(g, key) ==
  {g[m][key] : m \in {m \in 1..Len(g) : key \in DOMAIN g[m] /\ g[m][key] # NoneId}}

\* C20: merging a group of N candidates keeps every non-empty field of the
\* first candidate other than dates and confidence; a field null or empty in
\* the first takes the value of the earliest later candidate that has it;
\* event_date and announcement_date are the earliest non-null value of the
\* group; confidence is the maximum value of the group; was_merged is true
\* and merge_count is N.
C20_MergePolicy ==
  Resolved =>
    \A n \in 1..Len(rcall.groups) :
      LET g == GroupMembers(n)
          out == rcall.result[n]
          keys == UNION {DOMAIN g[m] : m \in 1..Len(g)}
      IN Len(g) >= 2 =>
           /\ out.was_merged = TRUE
           /\ out.merge_count = Len(g)
           /\ \A key \in keys \ MergeKeys :
                LET have == {m \in 1..Len(g) : TruthyGet(g[m], key)} IN
                have # {} =>
                  /\ key \in DOMAIN out
                  /\ out[key] = g[CHOOSE m \in have : \A k \in have : m <= k][key]
           /\ \A key \in keys \cap DateKeys :
                NonNull(g, key) # {} =>
                  /\ key \in DOMAIN out
                  /\ out[key] \in NonNull(g, key)
                  /\ \A v \in NonNull(g, key) : out[key] <= v
           /\ ("confidence" \in keys /\ NonNull(g, "confidence") # {}) =>
                /\ "confidence" \in DOMAIN out
                /\ out.confidence \in NonNull(g, "confidence")
                /\ \A v \in NonNull(g, "confidence") : out.confidence >= v


(***************************************************************************)
(* Properties of the query methods (SpecQuery, SpecJobs).                  *)
(***************************************************************************)
\* the rows of the last query_facilities result that describe facility fid
RowsOfFacility(fid) ==
  {i \in 1..Len(qcall.result) : qcall.result[i].id = fid}

\* the facility passes the division and state arguments of the last call
PassesWhere(f) ==
  /\ qcall.args[1] = None \/ Lookup(db, "divisions", f.division_id, "name") = qcall.args[1]
  /\ qcall.args[2] = None \/ f.state = qcall.args[2]

\* C21: query_facilities derives the status of a facility from its most
\* recent event and filters on the derived value: a facility whose earliest
\* dated event is "planned" at d1 and whose latest events are "operational"
\* at d2 > d1 is returned exactly once for status "operational" (and for no
\* status argument), not at all for status "planned", with first_date d1 and
\* last_event_date d2.
C21_StatusFromLatestEvent ==
  qcall.fn = "query_facilities" =>
    \A k \in 1..Len(db.facilities) :
      LET f == db.facilities[k]
          evs == {db.events[i] : i \in {j \in 1..Len(db.events) :
                                          db.events[j].facility_id = f.id}}
      IN \A e1 \in evs, e2 \in evs :
           ( /\ e1.status = "planned" /\ e1.event_date # None
             /\ e2.status = "operational" /\ e2.event_date # None
             /\ DateKey(e2.event_date) > DateKey(e1.event_date)
             /\ \A e \in evs : e.event_date # None =>
                                 DateKey(e.event_date) >= DateKey(e1.event_date)
             /\ \A e \in evs : /\ DateKey(e.event_date) <= DateKey(e2.event_date)
                               /\ e.event_date = e2.event_date => e.status = "operational" )
           => /\ Cardinality(RowsOfFacility(f.id)) =
                   IF PassesWhere(f) /\ qcall.args[3] \in {None, "operational"} THEN 1 ELSE 0
              /\ \A i \in RowsOfFacility(f.id) :
                   /\ qcall.result[i].status = "operational"
                   /\ qcall.result[i].first_date = e1.event_date
                   /\ qcall.result[i].last_event_date = e2.event_date

\* a facility with a planned event and a later operational one, asked for
\* with status "operational" and returned
C21_Witness ==
  /\ qcall.fn = "query_facilities"
  /\ qcall.args = <<None, None, "operational">>
  /\ Cardinality(RowsOfFacility(1)) = 1
  /\ qcall.result[1].id = 1
  /\ qcall.result[1].status = "operational"
  /\ qcall.result[1].first_date = "2024-01-01"
  /\ qcall.result[1].last_event_date = "2024-05-01"
  /\ \E i \in 1..Len(db.events) :
       db.events[i].facility_id = 1 /\ db.events[i].status = "planned"

\* the facility has no FACILITY evidence whose source row exists
NoSourceFor(fid) ==
  ~ \E i \in 1..Len(db.evidence) :
      /\ db.evidence[i].entity_id = fid
      /\ db.evidence[i].entity_type = "FACILITY"
      /\ \E k \in 1..Len(db.sources) : db.sources[k].id = db.evidence[i].source_id

\* C22: a facility with no evidence row, or whose evidence rows resolve to
\* no source, is not dropped by query_facilities: without a status argument
\* it is returned exactly once whenever it passes the division and state
\* arguments, and every row returned for it carries the source_title
\* "Motherson Address Directory" and the non-null default url.
C22_DefaultSource ==
  qcall.fn = "query_facilities" =>
    \A k \in 1..Len(db.facilities) :
      NoSourceFor(db.facilities[k].id) =>
        /\ (qcall.args[3] = None /\ PassesWhere(db.facilities[k])) =>
             Cardinality(RowsOfFacility(db.facilities[k].id)) = 1
        /\ \A i \in RowsOfFacility(db.facilities[k].id) :
             /\ qcall.result[i].source_title = "Motherson Address Directory"
             /\ qcall.result[i].url # None
             /\ qcall.result[i].url = "https://www.motherson.com/contact/address-directory"

\* all three facilities returned: the one with a stored source under its
\* title, the two without under the default
C22_Witness ==
  /\ qcall.fn = "query_facilities"
  /\ Len(qcall.result) = 3
  /\ qcall.result[1].source_title = "Alpha Plant opens"
  /\ NoSourceFor(2) /\ qcall.result[2].source_title = "Motherson Address Directory"
  /\ NoSourceFor(3) /\ qcall.result[3].source_title = "Motherson Address Directory"


\* the key query_expansions groups its rows under
KeyOf(name, city) ==
  <<LowerOf(IF name = None THEN "" ELSE name), LowerOf(IF city = None THEN "" ELSE city)>>

\* an event date lies inside the date arguments of the last call, bounds included
WithinBounds(event_date) ==
  \/ event_date = None
  \/ /\ qcall.args[1] = None \/ DateKey(event_date) >= DateKey(qcall.args[1])
     /\ qcall.args[2] = None \/ DateKey(event_date) <= DateKey(qcall.args[2])

\* the expansion types stored on the events, inside the date arguments, of
\* the facilities filed under the key
StoredTypes(key) ==
  {db.events[i].expansion_type :
     i \in {j \in 1..Len(db.events) :
              /\ db.events[j].expansion_type # None
              /\ WithinBounds(db.events[j].event_date)
              /\ \E k \in 1..Len(db.facilities) :
                   /\ db.facilities[k].id = db.events[j].facility_id
                   /\ KeyOf(db.facilities[k].name, db.facilities[k].city) = key}}

\* C23: query_expansions returns at most one row per case-insensitive
\* (name, city) key, and a key that has an event with a stored expansion_type
\* among the events the date arguments admit (whether or not it also has a
\* status-only event) is returned with a stored expansion_type, never with
\* the synthetic one of the status-only rows.
C23_OneRowPerKey ==
  qcall.fn = "query_expansions" =>
    /\ \A i \in 1..Len(qcall.result), j \in 1..Len(qcall.result) :
         KeyOf(qcall.result[i].facility, qcall.result[i].city) =
           KeyOf(qcall.result[j].facility, qcall.result[j].city) => i = j
    /\ \A k \in 1..Len(db.facilities) :
         LET key == KeyOf(db.facilities[k].name, db.facilities[k].city)
         IN (key # <<"", "">> /\ StoredTypes(key) # {}) =>
              \E i \in 1..Len(qcall.result) :
                /\ KeyOf(qcall.result[i].facility, qcall.result[i].city) = key
                /\ qcall.result[i].expansion_type \in StoredTypes(key)

\* two facilities of one key, one with a brownfield event and one with a
\* planned event without expansion_type: one row, brownfield
C23_Witness ==
  /\ qcall.fn = "query_expansions"
  /\ Len(qcall.rows[1]) = 1 /\ Len(qcall.rows[2]) = 1
  /\ qcall.rows[1][1].facility # qcall.rows[2][1].facility
  /\ qcall.rows[2][1].expansion_type = "expansion"
  /\ Len(qcall.result) = 1
  /\ qcall.result[1].expansion_type = "brownfield"

\* the rows of SELECT n of the last query_expansions call that come from
\* event e of facility f
RowsOfEvent(n, e, f) ==
  {i \in 1..Len(qcall.rows[n]) :
     /\ qcall.rows[n][i].facility = f.name /\ qcall.rows[n][i].city = f.city
     /\ qcall.rows[n][i].event_date = e.event_date
     /\ qcall.rows[n][i].status = e.status
     /\ qcall.rows[n][i].confidence = e.confidence
     /\ qcall.rows[n][i].expansion_type = IF n = 1 THEN e.expansion_type ELSE "expansion"}

\* C24: both SELECTs of query_expansions apply the same inclusive date
\* bounds: an event of either family is among the rows of its SELECT exactly
\* when its event_date is null or lies between date_from and date_to, the
\* bounds themselves included.
C24_InclusiveDateBounds ==
  qcall.fn = "query_expansions" =>
    \A i \in 1..Len(db.events), k \in 1..Len(db.facilities) :
      db.events[i].facility_id = db.facilities[k].id =>
        /\ db.events[i].expansion_type # None =>
             (RowsOfEvent(1, db.events[i], db.facilities[k]) # {}
                <=> WithinBounds(db.events[i].event_date))
        /\ db.events[i].status \in {"planned", "under-construction"} =>
             (RowsOfEvent(2, db.events[i], db.facilities[k]) # {}
                <=> WithinBounds(db.events[i].event_date))

\* date_from = date_to = 2024-03-01: the brownfield event of that day is
\* selected, the planned event of 2024-01-01 is not
C24_Witness ==
  /\ qcall.fn = "query_expansions"
  /\ qcall.args = <<"2024-03-01", "2024-03-01">>
  /\ Len(qcall.rows[1]) = 1 /\ qcall.rows[1][1].event_date = "2024-03-01"
  /\ qcall.rows[2] = <<>>
  /\ \E i \in 1..Len(db.events) :
       db.events[i].event_date = "2024-01-01" /\ db.events[i].status = "planned"

\* the events of the facilities filed under the key
EventsOfKey(key) ==
  {db.events[i] :
     i \in {j \in 1..Len(db.events) :
              \E k \in 1..Len(db.facilities) :
                /\ db.facilities[k].id = db.events[j].facility_id
                /\ KeyOf(db.facilities[k].name, db.facilities[k].city) = key}}

\* C25: every query_expansions row has non-null timeline, expansion_type,
\* status, confidence and url; a null event_date shows as "FY 2024-25", a
\* null expansion_type as "greenfield", a null status as "planned", a null
\* confidence as 0.7, a missing source as the root url.
C25_DisplayDefaults ==
  qcall.fn = "query_expansions" =>
    \A i \in 1..Len(qcall.result) :
      LET r == qcall.result[i]
          evs == EventsOfKey(KeyOf(r.facility, r.city))
      IN /\ r.timeline # None /\ r.expansion_type # None /\ r.status # None
         /\ r.confidence # NoneId /\ r.url # None
         /\ r.event_date = None => r.timeline = "FY 2024-25"
         /\ (\A e \in evs : e.expansion_type = None) => r.expansion_type = "greenfield"
         /\ (\A e \in evs : e.status = None) => r.status = "planned"
         /\ (\A e \in evs : e.confidence = NoneId) => r.confidence = 70
         /\ \A k \in 1..Len(db.facilities) :
              ( /\ db.facilities[k].name = r.facility /\ db.facilities[k].city = r.city
                /\ NoSourceFor(db.facilities[k].id) )
              => r.url = "https://www.motherson.com"


\* C26: query_jobs returns the jobs ordered by posted_date descending with
\* the jobs without posted_date last, each selected job once; with
\* factory_only set, the jobs returned are the factory roles and every one of
\* them has is_factory_role true.
C26_JobsOrdered ==
  qcall.fn = "query_jobs" =>
    /\ \A i \in 1..Len(qcall.result), j \in 1..Len(qcall.result) :
         i < j =>
           /\ qcall.result[i].id # qcall.result[j].id
           /\ qcall.result[i].posted_date = None => qcall.result[j].posted_date = None
           /\ qcall.result[j].posted_date # None =>
                DateKey(qcall.result[i].posted_date) >= DateKey(qcall.result[j].posted_date)
    /\ {qcall.result[i].id : i \in 1..Len(qcall.result)} =
         {db.jobs[i].id : i \in {j \in 1..Len(db.jobs) :
                                   qcall.args[1] => db.jobs[j].is_factory_role = 1}}
    /\ qcall.args[1] => \A i \in 1..Len(qcall.result) : qcall.result[i].is_factory_role = TRUE

\* jobs stored as (no date, 2024-01-01, 2024-05-01) come back as
\* (2024-05-01, 2024-01-01, no date)
C26_Witness ==
  /\ qcall.fn = "query_jobs"
  /\ Len(db.jobs) = 3
  /\ db.jobs[1].posted_date = None
  /\ db.jobs[2].posted_date = "2024-01-01"
  /\ db.jobs[3].posted_date = "2024-05-01"
  /\ Len(qcall.result) = 3
  /\ qcall.result[1].posted_date = "2024-05-01" /\ qcall.result[1].id = 3
  /\ qcall.result[2].posted_date = "2024-01-01" /\ qcall.result[2].id = 2
  /\ qcall.result[3].posted_date = None /\ qcall.result[3].id = 1


(***************************************************************************)
(* Division canonicalization (Spec).                                       *)
(***************************************************************************)
\* the name a division name is to be stored under
Canonical(n) ==
  IF UpperOf(n) \in DOMAIN division_map THEN division_map[UpperOf(n)] ELSE n

\* the division names of the structured facility candidates of an item
GivenDivisions(item) ==
  IF item.source_data.structured_facilities.kind # "list" THEN {}
  ELSE {Get(item.source_data.structured_facilities.elems[i], "division", "Unknown") :
          i \in 1..Len(item.source_data.structured_facilities.elems)} \ {None}

\* the division names inferred for the free-text facility mentions of an item
InferredDivisions(item) ==
  {InferDivision(item.entities.facilities[i].text) : i \in 1..Len(item.entities.facilities)}

\* C27: division canonicalization -- a division name whose upper-cased form
\* is a key of division_map is stored under the mapped name and every other
\* name as given: every Division row carries the canonical form of a name
\* that was given, an item that was handled without failure leaves a row
\* for the canonical form of each of its candidates' division names, and no
\* two Division rows ever share (company_id, name).
C27_DivisionCanonical ==
  /\ [](/\ \A i \in 1..Len(db.divisions), j \in 1..Len(db.divisions) :
             ( /\ db.divisions[i].company_id = db.divisions[j].company_id
               /\ db.divisions[i].name = db.divisions[j].name ) => i = j
        /\ \A i \in 1..Len(db.divisions) :
             \E item \in Items :
               \E n \in GivenDivisions(item) \cup InferredDivisions(item) :
                 db.divisions[i].name = Canonical(n))
  /\ [][(AtItem /\ pc' = "loop") =>
          \A n \in GivenDivisions(batch[idx]) :
            \E i \in 1..Len(db'.divisions) :
              /\ db'.divisions[i].company_id = company_id
              /\ db'.divisions[i].name = Canonical(n)]_vars

\* after two ingestion calls that gave "smr", "SMR", "Vision Systems" and
\* "Other Division": one row "Vision Systems", one row "Other Division"
C27_Witness ==
  /\ pc = "returned"
  /\ prev.outcome = "returned"
  /\ {batch[i] : i \in 1..Len(batch)} \cup {prev.batch[i] : i \in 1..Len(prev.batch)}
       = {ItemDirectory, ItemNoCity}
  /\ {db.divisions[i].name : i \in 1..Len(db.divisions)} = {"Vision Systems", "Other Division"}
  /\ Len(db.divisions) = 2


(***************************************************************************)
(* Further properties of EntityResolver (SpecResolver).                    *)
(***************************************************************************)
\* the candidates at positions i and j of the resolved list merge
Merges(i, j) == ShouldMergeFacilities(rcall.args[1][i], rcall.args[1][j])

\* the merge group that holds position i of the resolved list
GroupOf(i) ==
  CHOOSE n \in 1..Len(rcall.groups) : \E m \in 1..Len(rcall.groups[n]) : rcall.groups[n][m] = i

\* C28: grouping is relative to the anchor and not transitive.  The first
\* member of a group is its anchor; every other member merges with the
\* anchor, and a candidate joins the group of the first anchor of its
\* division it merges with, or becomes an anchor when there is none.  For
\* three candidates A, B, C of one division with A ~ B, B ~ C and not A ~ C
\* the result is {A, B} with merge_count 2 and C on its own.
C28_AnchorRelative ==
  Resolved =>
    /\ \A i \in 1..Len(rcall.args[1]) :
         LET g == rcall.groups[GroupOf(i)]
             earlier == {a \in 1..(i - 1) :
                           /\ CarriedDivision(rcall.args[1][a]) = CarriedDivision(rcall.args[1][i])
                           /\ rcall.groups[GroupOf(a)][1] = a
                           /\ Merges(a, i)}
         IN IF earlier = {} THEN g[1] = i
            ELSE g[1] \in earlier /\ \A a \in earlier : g[1] <= a
    /\ ( /\ Len(rcall.args[1]) = 3
         /\ \A i \in 1..3 : CarriedDivision(rcall.args[1][i]) = CarriedDivision(rcall.args[1][1])
         /\ Merges(1, 2) /\ Merges(2, 3) /\ ~Merges(1, 3) )
       => /\ rcall.groups = << <<1, 2>>, <<3>> >>
          /\ Len(rcall.result) = 2
          /\ rcall.result[1].merge_count = 2
          /\ rcall.result[2].merge_count = 1

\* "Sanand Plant" at Sanand, "Sanand Plant" without location, "Sanand Plant"
\* at Pune, in this order: the first two merged, the third on its own
C28_Witness ==
  /\ Resolved
  /\ Len(rcall.args[1]) = 3
  /\ "city" \in DOMAIN rcall.args[1][1] /\ rcall.args[1][1].city = Text.city_sanand
  /\ "city" \notin DOMAIN rcall.args[1][2]
  /\ "city" \in DOMAIN rcall.args[1][3] /\ rcall.args[1][3].city = Text.city_pune
  /\ Merges(1, 2) /\ Merges(2, 3) /\ ~Merges(1, 3)
  /\ rcall.groups = << <<1, 2>>, <<3>> >>

\* the sum of merge_count over the first n records of the result
RECURSIVE SumMergeCount(_)
SumMergeCount(n) == IF n = 0 THEN 0 ELSE SumMergeCount(n - 1) + rcall.result[n].merge_count

\* C29: resolve_facilities conserves candidates -- every position of the
\* input is in exactly one merge group, each output record counts the
\* candidates of its group, so the merge_count values sum to the number of
\* inputs; the output is never longer than the input, and an empty input
\* gives an empty output.
C29_CandidatesConserved ==
  Resolved =>
    /\ Len(rcall.result) = Len(rcall.groups)
    /\ \A i \in 1..Len(rcall.args[1]) :
         \E n \in 1..Len(rcall.groups) :
           /\ \E m \in 1..Len(rcall.groups[n]) : rcall.groups[n][m] = i
           /\ \A k \in 1..Len(rcall.groups) :
                (\E m \in 1..Len(rcall.groups[k]) : rcall.groups[k][m] = i) => k = n
    /\ \A n \in 1..Len(rcall.result) : rcall.result[n].merge_count = Len(rcall.groups[n])
    /\ SumMergeCount(Len(rcall.result)) = Len(rcall.args[1])
    /\ Len(rcall.result) <= Len(rcall.args[1])
    /\ rcall.args[1] = <<>> => rcall.result = <<>>

\* three candidates resolved into a merged pair and a single record
C29_Witness ==
  /\ Resolved
  /\ Len(rcall.args[1]) = 3
  /\ Len(rcall.result) = 2
  /\ {rcall.result[n].merge_count : n \in 1..2} = {1, 2}
  /\ SumMergeCount(2) = 3

\* C30: normalize_name is idempotent and leaves no strippable suffix behind:
\* normalizing its result again changes nothing, and a name with two generic
\* suffixes normalizes to the same string whichever order they come in.
C30_NormalizeIdempotent ==
  rcall.fn = "normalize_name" =>
    /\ normalize_name(rcall.result) = rcall.result
    /\ \A b \in BaseNames : \A i, j \in 1..Len(common_suffixes) :
         rcall.args[1] = WithSuffixes(b, <<i, j>>)
           => rcall.result = normalize_name(WithSuffixes(b, <<j, i>>))

====
